---- MODULE Spec2Model ----
(***************************************************************************)
(* Verification model of the romhacks patcher: the stream adapters of the  *)
(* read-write-utils crate (PositionTracker, HashingReader, HashingWriter,  *)
(* MonotonicHashingReader) and the IPS, UPS, BPS, PPF and Vcdiff decoders  *)
(* of the rompatcher crate.                                                *)
(*                                                                         *)
(* Byte streams are sequences of integers in 0..255.  A stream offset n    *)
(* addresses element n + 1 of the sequence.  A hasher is modelled by the   *)
(* sequence of bytes it has been fed; its digest is Crc32 of that          *)
(* sequence.  32-bit checksums are pairs <<high half, low half>> of 16-bit *)
(* integers.                                                               *)
(***************************************************************************)
EXTENDS Integers, Sequences, FiniteSets, TLC

VARIABLES
  kind,          \* which operation is running: a decoder or the reader harness
  strict,        \* the strict flag handed to Patcher::patch
  rom,           \* the source stream and its adapters
  patch,         \* the patch stream and its adapters
  output,        \* the output stream and its adapters
  pc,            \* position of the running operation
  loc,           \* local variables of the running decoder
  result,        \* outcome of Patcher::patch, "none" while running
  report,        \* what the decoder returned on success
  checksums,     \* the Checksums returned by Patcher::patch on success
  given          \* how the patch file was made: what it is meant to do

vars ==
  <<kind, strict, rom, patch, output, pc, loc, result, report, checksums, given>>

----------------------------------------------------------------------------
(* Bytes and sequences *)

Min(a, b) == IF a < b THEN a ELSE b

Max(a, b) == IF a > b THEN a ELSE b

\* bytes [from, to) of a stream, clipped to the stream
Slice(s, from, to) ==
  IF Min(to, Len(s)) <= from THEN <<>> ELSE SubSeq(s, from + 1, Min(to, Len(s)))

RECURSIVE BitXor(_, _)
BitXor(a, b) ==
  IF a = 0 THEN b
  ELSE IF b = 0 THEN a
  ELSE ((a + b) % 2) + 2 * BitXor(a \div 2, b \div 2)

RECURSIVE BitAnd(_, _)
BitAnd(a, b) ==
  IF a = 0 \/ b = 0 THEN 0
  ELSE ((a % 2) * (b % 2)) + 2 * BitAnd(a \div 2, b \div 2)

----------------------------------------------------------------------------
(* CRC-32 (IEEE 802.3, reflected, polynomial 0xEDB88320) as computed by    *)
(* crc32fast behind CRC32Hasher.                                           *)

Crc32Step(c) ==
  LET hi == c[1]
      lo == c[2]
      sh == <<hi \div 2, (hi % 2) * 32768 + lo \div 2>>
  IN  IF lo % 2 = 1
        THEN <<BitXor(sh[1], 60856), BitXor(sh[2], 33568)>>
        ELSE sh

Crc32Table ==
  [i \in 0..255 |->
     Crc32Step(Crc32Step(Crc32Step(Crc32Step(
     Crc32Step(Crc32Step(Crc32Step(Crc32Step(<<0, i>>))))))))]

Crc32Update(c, byte) ==
  LET t  == Crc32Table[BitXor(c[2] % 256, byte)]
      sh == <<c[1] \div 256, (c[1] % 256) * 256 + c[2] \div 256>>
  IN  <<BitXor(t[1], sh[1]), BitXor(t[2], sh[2])>>

\* the register after the bytes s[from .. to]; the register of the first
\* half is computed before the second half is entered, which keeps the
\* evaluation shallow for long streams
RECURSIVE Crc32Feed(_, _, _, _)
Crc32Feed(c, s, from, to) ==
  IF from > to THEN c
  ELSE IF from = to THEN Crc32Update(c, s[from])
  ELSE LET mid  == (from + to) \div 2
           left == Crc32Feed(c, s, from, mid)
       IN  IF left[1] >= 0 THEN Crc32Feed(left, s, mid + 1, to) ELSE left

\* digest of a hasher that was fed the bytes of s
Crc32(s) ==
  LET c == Crc32Feed(<<65535, 65535>>, s, 1, Len(s))
  IN  <<65535 - c[1], 65535 - c[2]>>

\* a checksum as the four little-endian bytes stored in a patch footer
Crc32Bytes(c) == <<c[2] % 256, c[2] \div 256, c[1] % 256, c[1] \div 256>>

\* a checksum read from four little-endian bytes
Crc32FromBytes(b) == <<b[4] * 256 + b[3], b[2] * 256 + b[1]>>

----------------------------------------------------------------------------
(* The source stream as the decoders see it:                               *)
(*   PositionTracker< MonotonicHashingReader< R > >                        *)
(* data   : contents of the wrapped stream R                               *)
(* raw    : cursor of R (a file or in-memory cursor; it may lie past the   *)
(*          end, where reads return nothing)                               *)
(* spos   : position field of MonotonicHashingReader.inner                 *)
(* hpos   : position field of MonotonicHashingReader.hasher                *)
(* hashed : bytes fed to the hasher so far                                 *)
(* tpos   : position field of the outer PositionTracker                    *)

NewRom(data) ==
  [data |-> data, raw |-> 0, spos |-> 0, hpos |-> 0, hashed |-> <<>>, tpos |-> 0]

\* PositionTracker::seek(Start) on MonotonicHashingReader.inner: the offset
\* is the signed difference to the tracked position, applied to R by
\* seek_relative and added to the tracked position.
InnerSeekStart(r, position) ==
  LET offset == position - r.spos
  IN  IF r.raw + offset < 0
        THEN [s |-> r, ok |-> FALSE]
        ELSE [s |-> [r EXCEPT !.raw = @ + offset, !.spos = @ + offset],
              ok |-> TRUE]

\* PositionTracker::seek(End) on MonotonicHashingReader.inner: the tracked
\* position becomes the position R reports.
InnerSeekEnd(r, offset) ==
  LET target == Len(r.data) + offset
  IN  IF target < 0
        THEN [s |-> r, ok |-> FALSE]
        ELSE [s |-> [r EXCEPT !.raw = target, !.spos = target], ok |-> TRUE]

\* the bytes of `data` (read at tracked position `starting`) the hasher has
\* not seen yet
UnhashedData(hpos, starting, data) ==
  LET already_hashed_len == hpos - starting
  IN  IF already_hashed_len >= 0 /\ already_hashed_len <= Len(data)
        THEN SubSeq(data, already_hashed_len + 1, Len(data))
        ELSE <<>>

\* MonotonicHashingReader::read_and_hash around a read or a consume of up to
\* n bytes of R
MhrReadAndHash(r, n) ==
  LET data     == Slice(r.data, r.raw, r.raw + n)
      unhashed == UnhashedData(r.hpos, r.spos, data)
  IN  [s |-> [r EXCEPT !.raw = @ + Len(data), !.spos = @ + Len(data),
                       !.hashed = @ \o unhashed, !.hpos = @ + Len(unhashed)],
       bytes |-> data]

\* a seek that moves the source without hashing what it passes over
SeekWithoutHashing(r, position) == InnerSeekStart(r, position)

\* MonotonicHashingReader::seek_and_hash_to
MhrSeekAndHashTo(r, position) ==
  LET HashFrom(a) ==
        LET data == Slice(a.s.data, a.s.raw, a.s.raw + (position - a.s.spos))
        IN  IF ~a.ok THEN a
            ELSE [s |-> [a.s EXCEPT !.raw = @ + Len(data),
                                    !.spos = @ + Len(data),
                                    !.hashed = @ \o data,
                                    !.hpos = @ + Len(data)],
                  ok |-> TRUE]
  IN  IF position <= r.hpos
        THEN InnerSeekStart(r, position)
        ELSE HashFrom(InnerSeekStart(r, r.hpos))

\* MonotonicHashingReader::seek_relative
MhrSeekRelative(r, offset) ==
  IF r.spos + offset < 0
    THEN [s |-> r, ok |-> FALSE]
    ELSE MhrSeekAndHashTo(r, r.spos + offset)

\* MonotonicHashingReader::seek(End(offset)) when fill_buf returns buflen
\* bytes
MhrSeekEnd(r, offset, buflen) ==
  LET safe_read_len == IF buflen + offset >= 0 THEN Min(buflen + offset, buflen) ELSE 0
      buf == Slice(r.data, r.raw, r.raw + safe_read_len)
      b == [r EXCEPT !.hashed = @ \o buf, !.hpos = @ + Len(buf),
                     !.raw = @ + Len(buf), !.spos = @ + Len(buf)]
      HashTo(e) == IF ~e.ok THEN e ELSE MhrSeekAndHashTo(e.s, e.s.spos)
  IN  HashTo(InnerSeekEnd(b, offset))

\* PositionTracker::read over the MonotonicHashingReader
RomRead(r, n) ==
  LET Track(m) == [s |-> [m.s EXCEPT !.tpos = @ + Len(m.bytes)], bytes |-> m.bytes]
  IN  Track(MhrReadAndHash(r, n))

\* PositionTracker::seek_relative over the MonotonicHashingReader
RomSeekRelative(r, offset) ==
  LET Track(m) == IF ~m.ok THEN m
                  ELSE [s |-> [m.s EXCEPT !.tpos = @ + offset], ok |-> TRUE]
  IN  Track(MhrSeekRelative(r, offset))

\* PositionTracker::seek(Start) over the MonotonicHashingReader
RomSeekStart(r, position) == RomSeekRelative(r, position - r.tpos)

\* PositionTracker::seek(End) over the MonotonicHashingReader
RomSeekEnd(r, offset, buflen) ==
  LET Track(m) == IF ~m.ok THEN m
                  ELSE [s |-> [m.s EXCEPT !.tpos = m.s.spos], ok |-> TRUE]
  IN  Track(MhrSeekEnd(r, offset, buflen))

\* PositionTracker::take_from_inner with TakeExt::exactly around a copy of
\* amt bytes: the bytes read, and whether all amt of them arrived
RomTakeExactly(r, amt) ==
  LET Exactly(m) == [s |-> m.s, bytes |-> m.bytes, ok |-> Len(m.bytes) = amt]
  IN  Exactly(RomRead(r, amt))

\* PositionTracker::take_from_inner_until with TakeExt::exactly;
\* err is "InvalidInput", "UnexpectedEof" or "none"
RomTakeUntil(r, pos) ==
  LET Until(m) == [s |-> m.s, bytes |-> m.bytes,
                   err |-> IF m.ok THEN "none" ELSE "UnexpectedEof"]
  IN  IF pos < r.tpos
        THEN [s |-> r, bytes |-> <<>>, err |-> "InvalidInput"]
        ELSE Until(RomTakeExactly(r, pos - r.tpos))

\* PositionTracker::copy_to: everything up to the end of the stream
RomCopyTo(r) == RomRead(r, Len(r.data) + 1)

----------------------------------------------------------------------------
(* Harness for the reader adapters: arbitrary sequences of read, consume,  *)
(* seek and copy operations on a tracked MonotonicHashingReader.           *)

MaxReaderLen == 3

MaxReaderOps == 4

MaxSeek == 2

ReaderSources == {[i \in 1..n |-> i] : n \in 0..MaxReaderLen}

\* length of the slice fill_buf may return: at least one byte unless the
\* stream is exhausted
BufLens(r) ==
  IF r.raw >= Len(r.data) THEN {0} ELSE 1..(Len(r.data) - r.raw)

InitReader ==
  /\ kind = "reader"
  /\ strict = FALSE
  /\ rom \in {NewRom(d) : d \in ReaderSources}
  /\ patch = <<>>
  /\ output = <<>>
  /\ pc = "reader"
  /\ loc = [steps |-> 0, allok |-> TRUE]
  /\ result = "none"
  /\ report = <<>>
  /\ checksums = <<>>
  /\ given = <<>>

ReaderStep(m) ==
  /\ pc = "reader"
  /\ loc.steps < MaxReaderOps
  /\ rom' = m.s
  /\ result' = IF m.ok THEN "ok" ELSE "err"
  /\ loc' = [loc EXCEPT !.steps = @ + 1, !.allok = @ /\ m.ok]
  /\ UNCHANGED <<kind, strict, patch, output, pc, report, checksums, given>>

ReaderRead ==
  \E n \in 1..MaxReaderLen : ReaderStep([s |-> RomRead(rom, n).s, ok |-> TRUE])

\* fill_buf followed by consume(amt): PositionTracker::consume over
\* MonotonicHashingReader::consume
ReaderConsume ==
  \E buflen \in BufLens(rom) : \E amt \in 0..buflen :
    ReaderStep([s |-> RomRead(rom, amt).s, ok |-> TRUE])

ReaderSeekStart ==
  \E p \in 0..(MaxReaderLen + 1) :
    ReaderStep(RomSeekStart(rom, p))

ReaderSeekCurrent ==
  \E off \in (-MaxSeek)..MaxSeek :
    ReaderStep(RomSeekRelative(rom, off))

ReaderSeekEnd ==
  \E off \in (-MaxSeek)..MaxSeek : \E buflen \in BufLens(rom) :
    ReaderStep(RomSeekEnd(rom, off, buflen))

ReaderCopyExactly ==
  \E n \in 1..MaxReaderLen :
    ReaderStep(RomTakeExactly(rom, n))

ReaderCopyUntil ==
  \E p \in 0..(MaxReaderLen + 1) :
    LET Step(m) == ReaderStep([s |-> m.s, ok |-> m.err = "none"])
    IN  Step(RomTakeUntil(rom, p))

ReaderCopyTo == ReaderStep([s |-> RomCopyTo(rom).s, ok |-> TRUE])

NextReader ==
  \/ ReaderRead
  \/ ReaderConsume
  \/ ReaderSeekStart
  \/ ReaderSeekCurrent
  \/ ReaderSeekEnd
  \/ ReaderCopyExactly
  \/ ReaderCopyUntil
  \/ ReaderCopyTo

SpecReader == InitReader /\ [][NextReader]_vars

\* C7: on a MonotonicHashingReader whose operations have all succeeded, the
\* hasher has been fed exactly the source bytes at offsets [0, H), in order
\* and each once, H being the hasher position; at end of file this is the
\* whole source.
C7_HashedExactlyOnce ==
  (kind = "reader" /\ loc.allok) =>
    /\ rom.hpos <= Len(rom.data)
    /\ rom.hashed = Slice(rom.data, 0, rom.hpos)

\* C8: after a successful operation the offset of a PositionTracker equals
\* the logical position of the stream it wraps, also after a seek that
\* targets a position past the end of a reader that stops there.
C8_OffsetIsStreamPosition ==
  (kind = "reader" /\ result = "ok") =>
    /\ rom.tpos = rom.spos
    /\ rom.spos = rom.raw

----------------------------------------------------------------------------
(* The patch stream: PositionTracker< HashingReader< P > >.                *)
(* data, raw as for the source; hashed: bytes fed to the hasher; tpos:     *)
(* position field of the tracker.                                          *)

NewPatch(data) == [data |-> data, raw |-> 0, hashed |-> <<>>, tpos |-> 0]

\* HashingReader::read under PositionTracker::read, for up to n bytes
PatchRead(p, n) ==
  LET bytes == Slice(p.data, p.raw, p.raw + n)
  IN  [s |-> [p EXCEPT !.raw = @ + Len(bytes), !.hashed = @ \o bytes,
                       !.tpos = @ + Len(bytes)],
       bytes |-> bytes]

\* read_array, read_exact, copy_exactly: ok iff all n bytes arrived
PatchReadExact(p, n) ==
  LET Exactly(m) == [s |-> m.s, bytes |-> m.bytes, ok |-> Len(m.bytes) = n]
  IN  Exactly(PatchRead(p, n))

\* PositionTracker::seek_relative over HashingReader::seek: the cursor of P
\* moves, nothing is hashed
PatchSeekRelative(p, offset) ==
  IF p.raw + offset < 0
    THEN [s |-> p, ok |-> FALSE]
    ELSE [s |-> [p EXCEPT !.raw = @ + offset, !.tpos = @ + offset], ok |-> TRUE]

\* ReadExt::has_reached_eof: fill_buf returns an empty slice
PatchAtEof(p) == p.raw >= Len(p.data)

\* Decoded numbers are exact below NumCap and saturate there; NumCap
\* exceeds every stream length of the model.
NumCap == 1048576

Sat(n) == Min(n, NumCap)

\* A u64 is held as ten base-128 digits, least significant first, so that
\* the checked arithmetic of the decoders is exact: the value fits u64 iff
\* the tenth digit is at most 1.
ZeroLimbs == [i \in 1..10 |-> 0]

\* checked addition of x * 128^(pos - 1), x below 128, to d
RECURSIVE CheckedAddAt(_, _, _)
CheckedAddAt(d, pos, x) ==
  IF x = 0 THEN [ok |-> d[10] <= 1, d |-> d]
  ELSE IF pos > 10 THEN [ok |-> FALSE, d |-> d]
  ELSE CheckedAddAt([d EXCEPT ![pos] = (d[pos] + x) % 128], pos + 1,
                    (d[pos] + x) \div 128)

\* the digits from the i-th on as a number, saturated at NumCap
RECURSIVE LimbsSat(_, _)
LimbsSat(d, i) == IF i > 10 THEN 0 ELSE Sat(LimbsSat(d, i + 1) * 128 + d[i])

\* ReadNumber::read_number (byuu varint) on the bytes of s from offset at,
\* at its i-th byte, where shift is 128^i: err is "none", "eof" (the stream
\* ended) or "overflow" (DecodingError); n is the number of bytes consumed;
\* limbs is the value, value the same saturated at NumCap.  shift * 128
\* overflows when shift is 128^9.
RECURSIVE ReadNumberAt(_, _, _, _)
ReadNumberAt(s, at, i, data) ==
  LET Overflow == [err |-> "overflow", value |-> 0, n |-> i + 1, limbs |-> ZeroLimbs]
      Data(sum) ==
        IF ~sum.ok THEN Overflow ELSE ReadNumberAt(s, at, i + 1, sum.d)
      NewValue(byte, new_value) ==
        IF ~new_value.ok THEN Overflow
        ELSE IF byte >= 128
          THEN [err |-> "none", value |-> LimbsSat(new_value.d, 1), n |-> i + 1,
                limbs |-> new_value.d]
        ELSE IF i >= 9 THEN Overflow
        ELSE Data(CheckedAddAt(new_value.d, i + 2, 1))
      Byte(byte) == NewValue(byte, CheckedAddAt(data, i + 1, byte % 128))
  IN  IF at + i >= Len(s)
        THEN [err |-> "eof", value |-> 0, n |-> i, limbs |-> ZeroLimbs]
        ELSE Byte(s[at + i + 1])

\* read_number that takes the byte after the number as well
ReadNumberAndOneMore(p) ==
  LET Consume(r) ==
        [s |-> PatchRead(p, r.n + 1).s, err |-> r.err, value |-> r.value,
         limbs |-> r.limbs]
  IN  Consume(ReadNumberAt(p.data, p.raw, 0, ZeroLimbs))

\* read_number with unchecked arithmetic: an overflow goes unreported
ReadNumberUnchecked(p) ==
  LET Consume(r) ==
        [s |-> PatchRead(p, r.n).s, err |-> IF r.err = "overflow" THEN "none" ELSE r.err,
         value |-> r.value, limbs |-> r.limbs]
  IN  Consume(ReadNumberAt(p.data, p.raw, 0, ZeroLimbs))

\* read_number on the tracked, hashed patch stream
PatchReadNumber(p) ==
  LET Consume(r) ==
        [s |-> PatchRead(p, r.n).s, err |-> r.err, value |-> r.value, limbs |-> r.limbs]
  IN  Consume(ReadNumberAt(p.data, p.raw, 0, ZeroLimbs))

----------------------------------------------------------------------------
(* The output stream: PositionTracker< HashingWriter< O > >, O a buffered  *)
(* writer over a file that starts empty.                                   *)

NewOutput == [data |-> <<>>, raw |-> 0, hashed |-> <<>>, tpos |-> 0]

\* contents of a file after bytes are written at offset `at` (a hole past
\* the old end reads as zeros)
Overlay(data, at, bytes) ==
  LET total == Max(Len(data), at + Len(bytes))
  IN  IF at = Len(data) THEN data \o bytes
      ELSE [i \in 1..total |->
              IF i > at /\ i <= at + Len(bytes) THEN bytes[i - at]
              ELSE IF i <= Len(data) THEN data[i]
              ELSE 0]

\* a write that reaches the file but not the hasher
WriteWithoutHashing(o, bytes) ==
  [o EXCEPT !.data = Overlay(@, o.raw, bytes), !.raw = @ + Len(bytes),
            !.tpos = @ + Len(bytes)]

\* HashingWriter::write under PositionTracker::write or copy_to_inner_from
OutWrite(o, bytes) ==
  [o EXCEPT !.data = Overlay(@, o.raw, bytes), !.raw = @ + Len(bytes),
            !.hashed = @ \o bytes, !.tpos = @ + Len(bytes)]

\* PositionTracker::seek(Start) over HashingWriter::seek
OutSeekStart(o, position) ==
  LET offset == position - o.tpos
  IN  IF o.raw + offset < 0
        THEN [s |-> o, ok |-> FALSE]
        ELSE [s |-> [o EXCEPT !.raw = @ + offset, !.tpos = @ + offset],
              ok |-> TRUE]

\* PositionTracker::with_bufwrite_inner around a closure that reads exactly
\* amount bytes of the file and then seeks to seek_to (an absolute position,
\* or -1 for the end of the file): the tracker adopts the position of the
\* inner tracker only if the closure succeeds
OutReadBack(o, amount, seek_to) ==
  LET bytes == Slice(o.data, o.raw, o.raw + amount)
      after == IF seek_to < 0 THEN Len(o.data) ELSE seek_to
  IN  IF Len(bytes) < amount
        THEN [s |-> [o EXCEPT !.raw = @ + Len(bytes)], bytes |-> bytes, ok |-> FALSE]
        ELSE [s |-> [o EXCEPT !.raw = after, !.tpos = after], bytes |-> bytes,
              ok |-> TRUE]

----------------------------------------------------------------------------
(* State of a running decoder as one record, so that a step is a function  *)
(* from records to records.                                                *)

Machine(r, p, o) ==
  [rom |-> r, patch |-> p, output |-> o, pc |-> "start",
   loc |-> [patch_result |-> "none"],
   result |-> "none", report |-> <<>>, checksums |-> <<>>]

Cur ==
  [rom |-> rom, patch |-> patch, output |-> output, pc |-> pc, loc |-> loc,
   result |-> result, report |-> report, checksums |-> checksums]

\* the variables take the values of the record st
Apply(st) ==
  /\ rom' = st.rom
  /\ patch' = st.patch
  /\ output' = st.output
  /\ pc' = st.pc
  /\ loc' = st.loc
  /\ result' = st.result
  /\ report' = st.report
  /\ checksums' = st.checksums
  /\ UNCHANGED <<kind, strict, given>>

\* the decoder returns outcome e to the caller
Return(st, e) == [st EXCEPT !.pc = "done", !.result = e]

\* From<io::Error> for Error
FromIoError(k) ==
  IF k \in {"InvalidInput", "InvalidData", "UnexpectedEof", "WriteZero"}
    THEN "BadPatch" ELSE "IO"

\* PatchingIOErrors::map_patch_err; an error it leaves alone reaches the
\* caller through `?` and From<io::Error>
MapPatchErr(k) ==
  IF k \in {"InvalidInput", "InvalidData", "UnexpectedEof"}
    THEN "BadPatch" ELSE FromIoError(k)

\* PatchingIOErrors::map_rom_err
MapRomErr(k) ==
  IF k = "InvalidInput" THEN "BadPatch"
  ELSE IF k = "UnexpectedEof" THEN "InputFileTooSmall"
  ELSE FromIoError(k)

----------------------------------------------------------------------------
(* BPS decoder (bps.rs) *)

FOOTER_LEN == 12

BPS1 == <<66, 80, 83, 49>>

\* the local variables of bps::patch and ups::patch when apply_patch starts
ByuuLocals(p, ssize, tsize) ==
  [start_of_footer |-> Len(p.data) - FOOTER_LEN,
   expected_source_size |-> ssize,
   expected_target_size |-> tsize,
   source_relative_offset |-> 0,
   target_relative_offset |-> 0,
   is_subsequent_iteration |-> FALSE,
   patch_result |-> "none"]

\* bps::patch up to the call of apply_patch: footer position, magic, sizes,
\* metadata (read and hashed)
BpsOpen(st) ==
  LET Fail(p) == Return([st EXCEPT !.patch = p], "BadPatch")
      Metadata(ssize, tsize, meta) ==
        IF ~meta.ok THEN Fail(meta.s)
        ELSE [st EXCEPT !.patch = meta.s, !.pc = "bps_apply",
                        !.loc = ByuuLocals(st.patch, ssize.value, tsize.value)]
      MetadataSize(ssize, tsize, msize) ==
        IF msize.err # "none" THEN Fail(msize.s)
        ELSE Metadata(ssize, tsize, PatchReadExact(msize.s, msize.value))
      TargetSize(ssize, tsize) ==
        IF tsize.err # "none" THEN Fail(tsize.s)
        ELSE MetadataSize(ssize, tsize, PatchReadNumber(tsize.s))
      SourceSize(ssize) ==
        IF ssize.err # "none" THEN Fail(ssize.s)
        ELSE TargetSize(ssize, PatchReadNumber(ssize.s))
      Magic(magic) ==
        IF ~magic.ok \/ magic.bytes # BPS1 THEN Fail(magic.s)
        ELSE SourceSize(PatchReadNumber(magic.s))
  IN  IF Len(st.patch.data) < FOOTER_LEN THEN Return(st, "BadPatch")
      ELSE Magic(PatchReadExact(st.patch, 4))

\* decode_signed
DecodeSigned(data) == (IF data % 2 = 1 THEN -1 ELSE 1) * (data \div 2)

\* apply_patch leaves its loop with result e; bps::patch goes on to the
\* footer
BpsLeave(st, e) == [st EXCEPT !.pc = "bps_footer", !.loc.patch_result = e]

\* end of a loop iteration: compare the patch position with the footer
BpsNext(st) ==
  IF st.pc # "bps_apply" \/ st.patch.tpos < st.loc.start_of_footer THEN st
  ELSE IF st.patch.tpos = st.loc.start_of_footer THEN BpsLeave(st, "Ok")
  ELSE BpsLeave(st, "BadPatch")

\* rom.seek(Start(position)) followed by copy_to_other_exactly into the
\* output
BpsCopyFromRom(st, position, length) ==
  LET Copied(c) ==
        IF c.ok THEN [st EXCEPT !.rom = c.s, !.output = OutWrite(@, c.bytes)]
        ELSE BpsLeave([st EXCEPT !.rom = c.s, !.output = OutWrite(@, c.bytes)],
                      MapRomErr("UnexpectedEof"))
      Sought(sk) ==
        IF ~sk.ok THEN BpsLeave([st EXCEPT !.rom = sk.s], FromIoError("InvalidInput"))
        ELSE Copied(RomTakeExactly(sk.s, length))
  IN  Sought(RomSeekStart(st.rom, position))

SourceRead(st, length) ==
  IF st.output.tpos >= st.loc.expected_source_size THEN BpsLeave(st, "BadPatch")
  ELSE BpsCopyFromRom(st, st.output.tpos, length)

TargetRead(st, length) ==
  LET Copied(c) ==
        IF c.ok THEN [st EXCEPT !.patch = c.s, !.output = OutWrite(@, c.bytes)]
        ELSE BpsLeave([st EXCEPT !.patch = c.s, !.output = OutWrite(@, c.bytes)],
                      MapPatchErr("UnexpectedEof"))
  IN  Copied(PatchReadExact(st.patch, length))

SourceCopy(st, length, offset) ==
  LET sro == st.loc.source_relative_offset + offset
      Advance(c) ==
        IF c.pc = "bps_apply"
          THEN [c EXCEPT !.loc.source_relative_offset = Sat(sro + length)]
          ELSE c
  IN  IF sro < 0 \/ sro >= st.loc.expected_source_size THEN BpsLeave(st, "BadPatch")
      ELSE Advance(BpsCopyFromRom([st EXCEPT !.loc.source_relative_offset = sro],
                                  sro, length))

\* RepeatSlice::new asserts that the slice is longer than one byte;
\* RepeatSlice::read never returns for a non-empty buffer.  A TargetCopy
\* therefore ends in a panic (period 1) or does not terminate (period > 1),
\* after the output has been read back and repositioned.
TargetCopy(st, length, offset) ==
  LET tro           == st.loc.target_relative_offset + offset
      output_offset == st.output.tpos
      period        == Min(output_offset - tro, length)
      ReadBack(rb) ==
        IF ~rb.ok THEN BpsLeave([st EXCEPT !.output = rb.s], MapPatchErr("UnexpectedEof"))
        ELSE [st EXCEPT !.output = rb.s, !.loc.target_relative_offset = tro,
                        !.pc = IF Len(rb.bytes) <= 1 THEN "panic" ELSE "hang"]
      Sought(sk) ==
        IF ~sk.ok THEN BpsLeave([st EXCEPT !.output = sk.s], FromIoError("InvalidInput"))
        ELSE ReadBack(OutReadBack(sk.s, period, output_offset))
  IN  IF tro < 0 \/ output_offset - tro < 0 \/ period = 0 THEN BpsLeave(st, "BadPatch")
      ELSE Sought(OutSeekStart(st.output, tro))

\* one iteration of the loop of apply_patch: decode_command, the command,
\* the comparison with the footer position
BpsCommand(st) ==
  LET Copy(length, opcode, off) ==
        IF off.err # "none" THEN BpsLeave([st EXCEPT !.patch = off.s], "BadPatch")
        ELSE IF opcode = 2
          THEN SourceCopy([st EXCEPT !.patch = off.s], length, DecodeSigned(off.value))
        ELSE TargetCopy([st EXCEPT !.patch = off.s], length, DecodeSigned(off.value))
      Command(enc) ==
        IF enc.err # "none" THEN BpsLeave([st EXCEPT !.patch = enc.s], "BadPatch")
        ELSE IF enc.value % 4 = 0
          THEN SourceRead([st EXCEPT !.patch = enc.s], (enc.value \div 4) + 1)
        ELSE IF enc.value % 4 = 1
          THEN TargetRead([st EXCEPT !.patch = enc.s], (enc.value \div 4) + 1)
        ELSE Copy((enc.value \div 4) + 1, enc.value % 4, PatchReadNumber(enc.s))
  IN  BpsNext(Command(PatchReadNumber(st.patch)))

\* the PatchReport of bps::patch and ups::patch
PatchReport(esrc, asrc, etgt, atgt, internal, whole, st) ==
  [expected_source_crc32  |-> esrc,
   actual_source_crc32    |-> asrc,
   expected_target_crc32  |-> etgt,
   actual_target_crc32    |-> atgt,
   patch_internal_crc32   |-> internal,
   patch_whole_file_crc32 |-> whole,
   expected_source_size   |-> st.loc.expected_source_size,
   actual_source_size     |-> st.rom.tpos,
   expected_target_size   |-> st.loc.expected_target_size,
   actual_target_size     |-> st.output.tpos]

\* bps::patch and ups::patch: the checks made before the rest of the
\* source is read
ByuuPatchCheck(st, internal, epatch) ==
  IF internal # epatch THEN "BadPatch"
  ELSE IF st.loc.patch_result # "Ok" THEN st.loc.patch_result
  ELSE IF st.output.tpos # st.loc.expected_target_size THEN "BadPatch"
  ELSE "Ok"

\* the strict checks without the comparison of the target checksums
StrictCheckSourceOnly(st, esrc, etgt, asrc, atgt, is_strict) ==
  IF is_strict /\ (asrc # esrc \/ st.rom.tpos # st.loc.expected_source_size)
    THEN (IF asrc = etgt THEN "AlreadyPatched" ELSE "WrongInputFile")
  ELSE "Ok"

\* the strict checks with the two diagnostics exchanged
StrictCheckSwapped(st, esrc, etgt, asrc, atgt, is_strict) ==
  IF is_strict /\ (asrc # esrc \/ st.rom.tpos # st.loc.expected_source_size)
    THEN (IF asrc = etgt THEN "WrongInputFile" ELSE "AlreadyPatched")
  ELSE IF is_strict /\ atgt # etgt THEN "WrongInputFile"
  ELSE "Ok"

\* the strict checks made whether or not strict mode is on
StrictCheckAlways(st, esrc, etgt, asrc, atgt, is_strict) ==
  IF asrc # esrc \/ st.rom.tpos # st.loc.expected_source_size
    THEN (IF asrc = etgt THEN "AlreadyPatched" ELSE "WrongInputFile")
  ELSE IF atgt # etgt THEN "WrongInputFile"
  ELSE "Ok"

\* bps::patch and ups::patch: the checks of strict mode, st.rom being the
\* source after rom.copy_to
ByuuStrictCheck(st, esrc, etgt, asrc, atgt, is_strict) ==
  IF is_strict /\ (asrc # esrc \/ st.rom.tpos # st.loc.expected_source_size)
    THEN (IF asrc = etgt THEN "AlreadyPatched" ELSE "WrongInputFile")
  ELSE IF is_strict /\ atgt # etgt THEN "WrongInputFile"
  ELSE "Ok"

\* bps::patch and ups::patch after apply_patch: the footer is read, the
\* patch is validated, then the result of apply_patch is looked at; rest is
\* the source after rom.copy_to
ByuuFooter(st, is_strict, rest) ==
  LET Strict(s2, esrc, etgt, asrc, atgt, internal, whole) ==
        IF ByuuStrictCheck(s2, esrc, etgt, asrc, atgt, is_strict) # "Ok"
          THEN Return(s2, ByuuStrictCheck(s2, esrc, etgt, asrc, atgt, is_strict))
          ELSE [Return(s2, "Ok") EXCEPT !.report =
                  PatchReport(esrc, asrc, etgt, atgt, internal, whole, s2)]
      Checked(s1, esrc, etgt, internal, epatch, whole) ==
        IF ByuuPatchCheck(s1, internal, epatch) # "Ok"
          THEN Return(s1, ByuuPatchCheck(s1, internal, epatch))
          ELSE Strict([s1 EXCEPT !.rom = rest.s], esrc, etgt, Crc32(rest.s.hashed),
                      Crc32(s1.output.hashed), internal, whole)
      PatchCrc(esrc, etgt, epatch) ==
        IF ~epatch.ok
          THEN Return([st EXCEPT !.patch = epatch.s], MapPatchErr("UnexpectedEof"))
          ELSE Checked([st EXCEPT !.patch = epatch.s],
                       Crc32FromBytes(esrc.bytes), Crc32FromBytes(etgt.bytes),
                       Crc32(etgt.s.hashed), Crc32FromBytes(epatch.bytes),
                       Crc32(epatch.s.hashed))
      TargetCrc(esrc, etgt) ==
        IF ~etgt.ok
          THEN Return([st EXCEPT !.patch = etgt.s], MapPatchErr("UnexpectedEof"))
          ELSE PatchCrc(esrc, etgt, PatchReadExact(etgt.s, 4))
      SourceCrc(esrc) ==
        IF ~esrc.ok
          THEN Return([st EXCEPT !.patch = esrc.s], MapPatchErr("UnexpectedEof"))
          ELSE TargetCrc(esrc, PatchReadExact(esrc.s, 4))
      Skipped(skip) ==
        IF ~skip.ok
          THEN Return([st EXCEPT !.patch = skip.s], FromIoError("UnexpectedEof"))
          ELSE SourceCrc(PatchReadExact(skip.s, 4))
  IN  IF st.loc.start_of_footer < st.patch.tpos
        THEN Return(st, FromIoError("InvalidInput"))
        ELSE Skipped(PatchReadExact(st.patch, st.loc.start_of_footer - st.patch.tpos))

BpsFooter(st, is_strict) == ByuuFooter(st, is_strict, RomCopyTo(st.rom))

----------------------------------------------------------------------------
(* UPS decoder (ups.rs).  The source is PositionTracker<HashingReader<R>>: *)
(* it is only read forwards, and every byte read is hashed.                *)

UPS1 == <<85, 80, 83, 49>>

\* HashingReader::read under PositionTracker::read on the source
HrRead(r, n) ==
  LET bytes == Slice(r.data, r.raw, r.raw + n)
  IN  [s |-> [r EXCEPT !.raw = @ + Len(bytes), !.spos = @ + Len(bytes),
                       !.hpos = @ + Len(bytes), !.hashed = @ \o bytes,
                       !.tpos = @ + Len(bytes)],
       bytes |-> bytes]

\* ups::patch up to the call of apply_patch
UpsOpen(st) ==
  LET Fail(p) == Return([st EXCEPT !.patch = p], "BadPatch")
      TargetSize(ssize, tsize) ==
        IF tsize.err # "none" THEN Fail(tsize.s)
        ELSE [st EXCEPT !.patch = tsize.s, !.pc = "ups_apply",
                        !.loc = ByuuLocals(st.patch, ssize.value, tsize.value)]
      SourceSize(ssize) ==
        IF ssize.err # "none" THEN Fail(ssize.s)
        ELSE TargetSize(ssize, PatchReadNumber(ssize.s))
      Magic(magic) ==
        IF ~magic.ok \/ magic.bytes # UPS1 THEN Fail(magic.s)
        ELSE SourceSize(PatchReadNumber(magic.s))
  IN  IF Len(st.patch.data) < FOOTER_LEN THEN Return(st, "BadPatch")
      ELSE Magic(PatchReadExact(st.patch, 4))

UpsLeave(st, e) == [st EXCEPT !.pc = "ups_footer", !.loc.patch_result = e]

\* index of the first 0x00 of s at or after element i, 0 if there is none
RECURSIVE Memchr0(_, _)
Memchr0(s, i) ==
  IF i > Len(s) THEN 0 ELSE IF s[i] = 0 THEN i ELSE Memchr0(s, i + 1)

\* the patch bytes as they are, not combined with the source bytes
KeepPatchBytes(patch_bytes, rom_bytes) == patch_bytes

\* xor_slices of the patch bytes with the source bytes, the source padded
\* with zeros by rom.chain(io::repeat(0x00))
XorSlices(patch_bytes, rom_bytes) ==
  [i \in 1..Len(patch_bytes) |->
     BitXor(patch_bytes[i], IF i <= Len(rom_bytes) THEN rom_bytes[i] ELSE 0)]

\* apply_patch_block; fill_buf hands out everything left of the patch
ApplyPatchBlock(st) ==
  LET Block(buf, i) ==
        LET Xor(patch_bytes, rd) ==
              [s |-> [st EXCEPT !.rom = rd.s,
                                !.output = OutWrite(@, XorSlices(patch_bytes, rd.bytes)),
                                !.patch = PatchRead(@, Len(patch_bytes)
                                                       + (IF i = 0 THEN 0 ELSE 1)).s],
               ok |-> i # 0]
        IN  IF buf = <<>> THEN [s |-> st, ok |-> FALSE]
            ELSE IF i = 0 THEN Xor(buf, HrRead(st.rom, Len(buf)))
            ELSE Xor(SubSeq(buf, 1, i - 1), HrRead(st.rom, i - 1))
      Buffer(buf) == Block(buf, Memchr0(buf, 1))
  IN  Buffer(Slice(st.patch.data, st.patch.raw, Len(st.patch.data)))

\* one iteration of the loop of apply_patch
UpsHunk(st) ==
  LET Compare(blk) ==
        IF ~blk.ok THEN UpsLeave(blk.s, "BadPatch")
        ELSE IF blk.s.patch.tpos < st.loc.start_of_footer
          THEN [blk.s EXCEPT !.loc.is_subsequent_iteration = TRUE]
        ELSE IF blk.s.patch.tpos = st.loc.start_of_footer
          THEN [blk.s EXCEPT !.pc = "ups_rest"]
        ELSE UpsLeave(blk.s, "BadPatch")
      Copied(off, amt, rd) ==
        IF Len(rd.bytes) < amt
          THEN UpsLeave([st EXCEPT !.patch = off.s, !.rom = rd.s,
                                   !.output = OutWrite(@, rd.bytes)],
                        MapRomErr("UnexpectedEof"))
          ELSE Compare(ApplyPatchBlock([st EXCEPT !.patch = off.s, !.rom = rd.s,
                                                  !.output = OutWrite(@, rd.bytes)]))
      Offset(off, amt) ==
        IF off.err # "none" THEN UpsLeave([st EXCEPT !.patch = off.s], "BadPatch")
        ELSE Copied(off, amt, HrRead(st.rom, amt))
      Number(off) ==
        Offset(off, (IF st.loc.is_subsequent_iteration THEN 1 ELSE 0) + off.value)
  IN  Number(PatchReadNumber(st.patch))

\* the end of apply_patch: copy_to_other_until(expected_target_size)
UpsRest(st) ==
  LET Copied(amt, rd) ==
        IF Len(rd.bytes) < amt
          THEN UpsLeave([st EXCEPT !.rom = rd.s, !.output = OutWrite(@, rd.bytes)],
                        MapRomErr("UnexpectedEof"))
          ELSE UpsLeave([st EXCEPT !.rom = rd.s, !.output = OutWrite(@, rd.bytes)], "Ok")
      Until(amt) ==
        IF amt < 0 THEN UpsLeave(st, MapRomErr("InvalidInput"))
        ELSE Copied(amt, HrRead(st.rom, amt))
  IN  Until(st.loc.expected_target_size - st.rom.tpos)

UpsFooter(st, is_strict) ==
  ByuuFooter(st, is_strict, HrRead(st.rom, Len(st.rom.data) + 1))

\* Patcher::ups and Patcher::bps: the Checksums of a PatchReport
ByuuChecksums(st) ==
  IF st.result # "Ok" THEN st
  ELSE [st EXCEPT !.checksums =
          [source_crc32 |-> st.report.actual_source_crc32,
           patch_crc32  |-> st.report.patch_whole_file_crc32,
           target_crc32 |-> st.report.actual_target_crc32]]

BpsStart == kind = "BPS" /\ pc = "start" /\ Apply(BpsOpen(Cur))

BpsStep == pc = "bps_apply" /\ Apply(BpsCommand(Cur))

BpsFinish == pc = "bps_footer" /\ Apply(ByuuChecksums(BpsFooter(Cur, strict)))

UpsStart == kind = "UPS" /\ pc = "start" /\ Apply(UpsOpen(Cur))

UpsStep == pc = "ups_apply" /\ Apply(UpsHunk(Cur))

UpsTail == pc = "ups_rest" /\ Apply(UpsRest(Cur))

UpsFinish == pc = "ups_footer" /\ Apply(ByuuChecksums(UpsFooter(Cur, strict)))

----------------------------------------------------------------------------
(* Inputs of the BPS and UPS decoders: patch files authored for a source   *)
(* S0, possibly damaged afterwards, applied to the source they were made   *)
(* for, to their own target, or to another file.                           *)

MaxSrcLen == 2

MaxCmds == 2

\* source files: up to MaxSrcLen bytes, in two variants that differ in
\* every byte
Sources == {[i \in 1..n |-> 17 * i + d] : n \in 0..MaxSrcLen, d \in {0, 1}}

Intended == {[i \in 1..n |-> 17 * i] : n \in 1..MaxSrcLen}

\* sequences over menu of length 1..n
RECURSIVE Programs(_, _)
Programs(menu, n) ==
  IF n = 0 THEN {}
  ELSE {<<c>> : c \in menu}
         \cup {Append(q, c) : q \in Programs(menu, n - 1), c \in menu}

RECURSIVE Flatten(_)
Flatten(ss) == IF ss = <<>> THEN <<>> ELSE Head(ss) \o Flatten(Tail(ss))

\* the byuu variable-length encoding that read_number decodes
RECURSIVE ByuuEncode(_)
ByuuEncode(n) ==
  IF n < 128 THEN <<128 + n>> ELSE <<n % 128>> \o ByuuEncode((n \div 128) - 1)

\* a BPS command as decode_command and decode_signed read it
BpsCmd(op, length, offset, data) ==
  ByuuEncode((length - 1) * 4 + op)
    \o (IF op >= 2
          THEN ByuuEncode(IF offset < 0 THEN 2 * (-offset) + 1 ELSE 2 * offset)
          ELSE <<>>)
    \o data

BpsMenu ==
  { BpsCmd(0, 1, 0, <<>>),      \* SourceRead of one byte
    BpsCmd(1, 1, 0, <<170>>),   \* TargetRead of one byte
    BpsCmd(2, 1, 0, <<>>),      \* SourceCopy of one byte at the cursor
    BpsCmd(2, 1, 1, <<>>),      \* SourceCopy of one byte, one past the cursor
    BpsCmd(3, 1, 0, <<>>),      \* TargetCopy of one byte
    BpsCmd(3, 2, 0, <<>>) }     \* TargetCopy of two bytes

\* a UPS hunk as apply_patch reads it
UpsHunkBytes(relative_offset, xor) == ByuuEncode(relative_offset) \o xor \o <<0>>

UpsMenu ==
  { UpsHunkBytes(0, <<255>>),
    UpsHunkBytes(1, <<15>>),
    UpsHunkBytes(0, <<1, 2>>),
    ByuuEncode(0) \o <<255>> }   \* a hunk without its delimiter

Tampers == {"none", "patch_crc", "target_crc", "source_size", "target_size"}

RECURSIVE RunBps(_)
RunBps(st) ==
  IF st.pc = "start" THEN RunBps(BpsOpen(st))
  ELSE IF st.pc = "bps_apply" THEN RunBps(BpsCommand(st))
  ELSE st

RECURSIVE RunUps(_)
RunUps(st) ==
  IF st.pc = "start" THEN RunUps(UpsOpen(st))
  ELSE IF st.pc = "ups_apply" THEN RunUps(UpsHunk(st))
  ELSE IF st.pc = "ups_rest" THEN RunUps(UpsRest(st))
  ELSE st

Zeros(n) == [i \in 1..n |-> 0]

\* the footer of a BPS or UPS file: source, target and patch checksums
ByuuFile(body, s0, t0, tamper) ==
  LET Flip(crc) == <<255 - crc[1]>> \o Tail(crc)
      Sign(most) ==
        most \o (IF tamper = "patch_crc" THEN Flip(Crc32Bytes(Crc32(most)))
                 ELSE Crc32Bytes(Crc32(most)))
  IN  Sign(body \o Crc32Bytes(Crc32(s0))
                \o (IF tamper = "target_crc" THEN Flip(Crc32Bytes(Crc32(t0)))
                    ELSE Crc32Bytes(Crc32(t0))))

BpsBody(ssize, tsize, meta, prog) ==
  BPS1 \o ByuuEncode(ssize) \o ByuuEncode(tsize) \o ByuuEncode(Len(meta)) \o meta
       \o Flatten(prog)

UpsBody(ssize, tsize, prog) ==
  UPS1 \o ByuuEncode(ssize) \o ByuuEncode(tsize) \o Flatten(prog)

\* a BPS file that turns s0 into whatever its commands produce from s0
BpsFile(s0, meta, prog, tamper) ==
  LET Author(t0) ==
        [data |-> ByuuFile(BpsBody(IF tamper = "source_size" THEN Len(s0) + 1
                                   ELSE Len(s0),
                                   IF tamper = "target_size" THEN 128 ELSE Len(t0),
                                   meta, prog),
                           s0, t0, tamper),
         target |-> t0]
  IN  Author(RunBps(Machine(NewRom(s0),
                            NewPatch(BpsBody(Len(s0), 0, meta, prog)
                                       \o Zeros(FOOTER_LEN)),
                            NewOutput)).output.data)

\* a UPS file that turns s0 into a target of tsize bytes
UpsFile(s0, tsize, prog, tamper) ==
  LET Author(t0) ==
        [data |-> ByuuFile(UpsBody(IF tamper = "source_size" THEN Len(s0) + 1
                                   ELSE Len(s0),
                                   IF tamper = "target_size" THEN 128 ELSE tsize,
                                   prog),
                           s0, t0, tamper),
         target |-> t0]
  IN  Author(RunUps(Machine(NewRom(s0),
                            NewPatch(UpsBody(Len(s0), tsize, prog)
                                       \o Zeros(FOOTER_LEN)),
                            NewOutput)).output.data)

InitMachine(k, s, p, is_strict, g) ==
  /\ kind = k
  /\ strict = is_strict
  /\ rom = NewRom(s)
  /\ patch = NewPatch(p)
  /\ output = NewOutput
  /\ pc = "start"
  /\ loc = [patch_result |-> "none"]
  /\ result = "none"
  /\ report = <<>>
  /\ checksums = <<>>
  /\ given = g

\* a patch file f applied, strictly or not, to one of the sources or to its
\* own target
InitFile(k, f) ==
  \E s \in Sources \cup {f.target}, is_strict \in BOOLEAN :
    InitMachine(k, s, f.data, is_strict, [target |-> f.target])

\* commands of two bytes, which can start inside the source and end past it
BpsLongMenu ==
  { BpsCmd(0, 2, 0, <<>>),      \* SourceRead of two bytes
    BpsCmd(2, 2, 0, <<>>) }     \* SourceCopy of two bytes at the cursor

\* commands whose operand or data is missing, so that the decoder takes
\* it from the footer
BpsCutMenu ==
  { <<130>>,                    \* SourceCopy of one byte, offset missing
    <<131>>,                    \* TargetCopy of one byte, offset missing
    BpsCmd(1, 2, 0, <<170>>) }  \* TargetRead of two bytes, one missing

\* a source whose checksum starts with the byte 0x80, which read_number
\* decodes as 0
BpsFooterSource == <<205>>

InitBpsCut ==
  \E c \in BpsCutMenu, prog \in {<<>>, <<BpsCmd(1, 1, 0, <<170>>)>>},
     s \in Sources \cup {BpsFooterSource}, is_strict \in BOOLEAN :
    LET f == BpsFile(BpsFooterSource, <<>>, prog \o <<c>>, "none")
    IN  InitMachine("BPS", s, f.data, is_strict, [target |-> f.target])

InitBps ==
  \/ InitBpsCut
  \/ \E s0 \in Intended, meta \in {<<>>, <<77>>}, prog \in Programs(BpsMenu, MaxCmds),
        tamper \in Tampers :
       InitFile("BPS", BpsFile(s0, meta, prog, tamper))
  \/ \E s0 \in Intended, c \in BpsLongMenu, prog \in {<<>>} \cup Programs(BpsMenu, 1) :
       InitFile("BPS", BpsFile(s0, <<>>, prog \o <<c>>, "none"))

\* a source that reaches past the hunks of two-hunk patches
UpsLongSource == <<17, 34, 51, 68>>

\* a UPS file without hunks, for a target that is the source s0
UpsNoHunkFile(s0) ==
  [data |-> ByuuFile(UpsBody(Len(s0), Len(s0), <<>>), s0, s0, "none"),
   target |-> s0]

InitUps ==
  \/ \E s0 \in Intended, tsize \in 1..MaxSrcLen, prog \in Programs(UpsMenu, MaxCmds),
        tamper \in Tampers :
       InitFile("UPS", UpsFile(s0, tsize, prog, tamper))
  \/ \E s0 \in Intended : InitFile("UPS", UpsNoHunkFile(s0))
  \/ \E prog \in Programs(UpsMenu, MaxCmds), is_strict \in BOOLEAN :
       LET f == UpsFile(UpsLongSource, Len(UpsLongSource), prog, "none")
       IN  InitMachine("UPS", UpsLongSource, f.data, is_strict, [target |-> f.target])

InitByuu == InitBps \/ InitUps

NextByuu ==
  \/ BpsStart
  \/ BpsStep
  \/ BpsFinish
  \/ UpsStart
  \/ UpsStep
  \/ UpsTail
  \/ UpsFinish

SpecByuu == InitByuu /\ [][NextByuu]_vars

----------------------------------------------------------------------------
(* Properties of the BPS and UPS decoders *)

Byuu == kind \in {"BPS", "UPS"}

\* the k-th checksum stored in the footer of patch file p (0: source,
\* 1: target, 2: patch)
StoredCrc(p, k) ==
  Crc32FromBytes(SubSeq(p, Len(p) - FOOTER_LEN + 4 * k + 1,
                           Len(p) - FOOTER_LEN + 4 * k + 4))

\* the stored patch checksum of p is not the checksum of all of p but its
\* last four bytes
BadPatchCrc(p) ==
  /\ Len(p) >= FOOTER_LEN
  /\ StoredCrc(p, 2) # Crc32(SubSeq(p, 1, Len(p) - 4))

\* C4: when BPS or UPS patching succeeds in strict mode, the reported actual
\* source and target checksums equal the expected ones, which are the
\* checksums stored in the footer of the patch.
C4_StrictSuccessMatches ==
  (Byuu /\ strict /\ result = "Ok") =>
    /\ report.actual_source_crc32 = report.expected_source_crc32
    /\ report.actual_target_crc32 = report.expected_target_crc32
    /\ report.expected_source_crc32 = StoredCrc(patch.data, 0)
    /\ report.expected_target_crc32 = StoredCrc(patch.data, 1)

C4_Witness ==
  /\ kind = "BPS" /\ strict /\ result = "Ok"
  /\ output.data # rom.data

\* C5 as stated: a BPS or UPS patch whose stored patch checksum is wrong
\* always ends rejected with BadPatch, whatever the source is and whatever
\* its commands did.
C5_BadCrcRejected ==
  (Byuu /\ pc \in {"done", "panic", "hang"} /\ BadPatchCrc(patch.data)) =>
    (pc = "done" /\ result = "BadPatch")

\* C6: in strict mode, once the commands have been applied and the patch
\* checksum and the target size have been validated, a source whose checksum
\* or size is not the expected one gives AlreadyPatched if its checksum is
\* the expected target checksum and WrongInputFile otherwise; a matching
\* source with a produced target of another checksum gives WrongInputFile.
C6_StrictClassification ==
  (/\ Byuu /\ strict /\ pc = "done"
   /\ loc.patch_result = "Ok"
   /\ ~BadPatchCrc(patch.data)
   /\ Len(output.data) = loc.expected_target_size) =>
    IF \/ Crc32(rom.data) # StoredCrc(patch.data, 0)
       \/ Len(rom.data) # loc.expected_source_size
      THEN result = (IF Crc32(rom.data) = StoredCrc(patch.data, 1)
                       THEN "AlreadyPatched" ELSE "WrongInputFile")
    ELSE IF Crc32(output.data) # StoredCrc(patch.data, 1)
      THEN result = "WrongInputFile"
    ELSE result = "Ok"

C6_Witness ==
  /\ kind = "UPS" /\ strict /\ result = "AlreadyPatched"
  /\ loc.patch_result = "Ok"

----------------------------------------------------------------------------
(* IPS decoder (ips.rs) under Patcher::ips.  The source is the tracked     *)
(* MonotonicHashingReader, the patch a tracked HashingReader, the output a *)
(* tracked HashingWriter.                                                  *)

PATCH == <<80, 65, 84, 67, 72>>

EOF_OFFSET == 4542278

U16BE(b) == b[1] * 256 + b[2]

U24BE(b) == b[1] * 65536 + b[2] * 256 + b[3]

\* the decoder returns error e, which Patcher::patch hands on
Fail(st, e) == Return([st EXCEPT !.loc.patch_result = e], e)

\* the decoder returns Ok to Patcher::ips, ::ppf or ::vcdiff
Succeed(st) == [st EXCEPT !.pc = "finish", !.loc.patch_result = "Ok"]

\* the end of Patcher::ips, ::ppf and ::vcdiff: io::copy of the rest of the
\* source into a sink, then the Checksums of the three hashers
PatcherFinish(st) ==
  LET Drained(m) ==
        [Return([st EXCEPT !.rom = m.s], "Ok") EXCEPT !.checksums =
           [source_crc32 |-> Crc32(m.s.hashed),
            patch_crc32  |-> Crc32(st.patch.hashed),
            target_crc32 |-> Crc32(st.output.hashed)]]
  IN  IF st.pc # "finish" THEN st
      ELSE Drained(MhrReadAndHash(st.rom, Len(st.rom.data) + 1))

\* ips::patch: the magic
IpsOpen(st) ==
  LET Magic(magic) ==
        IF ~magic.ok THEN Fail([st EXCEPT !.patch = magic.s], MapPatchErr("UnexpectedEof"))
        ELSE IF magic.bytes # PATCH THEN Fail([st EXCEPT !.patch = magic.s], "BadPatch")
        ELSE [st EXCEPT !.patch = magic.s, !.pc = "ips_apply"]
  IN  Magic(PatchReadExact(st.patch, 5))

\* without the skip over the patched bytes of the source
IpsNoSkip(st, hunk_size) == st

\* rom.seek_relative(hunk_size): skip over the patched bytes of the source
IpsSkip(st, hunk_size) ==
  LET Sought(sk) ==
        IF sk.ok THEN [st EXCEPT !.rom = sk.s]
        ELSE Fail([st EXCEPT !.rom = sk.s], FromIoError("InvalidInput"))
  IN  Sought(RomSeekRelative(st.rom, hunk_size))

\* a record whose bytes are in the patch
IpsLiteral(st, hunk_size) ==
  LET Copied(c) ==
        IF c.ok
          THEN IpsSkip([st EXCEPT !.patch = c.s, !.output = OutWrite(@, c.bytes)],
                       hunk_size)
          ELSE Fail([st EXCEPT !.patch = c.s, !.output = OutWrite(@, c.bytes)],
                    MapPatchErr("UnexpectedEof"))
  IN  Copied(PatchReadExact(st.patch, hunk_size))

\* a record that repeats one byte
IpsRle(st) ==
  LET Byte(pattern_len, b) ==
        IF ~b.ok THEN Fail([st EXCEPT !.patch = b.s], MapPatchErr("UnexpectedEof"))
        ELSE IpsSkip([st EXCEPT !.patch = b.s,
                                !.output = OutWrite(@, [i \in 1..pattern_len |->
                                                          b.bytes[1]])],
                     pattern_len)
      PatternLen(n) ==
        IF ~n.ok THEN Fail([st EXCEPT !.patch = n.s], MapPatchErr("UnexpectedEof"))
        ELSE IF U16BE(n.bytes) = 0 THEN Fail([st EXCEPT !.patch = n.s], "BadPatch")
        ELSE Byte(U16BE(n.bytes), PatchReadExact(n.s, 1))
  IN  PatternLen(PatchReadExact(st.patch, 2))

\* one iteration of the loop of ips::patch
IpsRecord(st) ==
  LET Size(s1, sz) ==
        IF ~sz.ok THEN Fail([s1 EXCEPT !.patch = sz.s], MapPatchErr("UnexpectedEof"))
        ELSE IF U16BE(sz.bytes) # 0
          THEN IpsLiteral([s1 EXCEPT !.patch = sz.s], U16BE(sz.bytes))
        ELSE IpsRle([s1 EXCEPT !.patch = sz.s])
      Until(off, c) ==
        IF c.err # "none"
          THEN Fail([st EXCEPT !.patch = off.s, !.rom = c.s,
                               !.output = OutWrite(@, c.bytes)],
                    MapRomErr(c.err))
          ELSE Size([st EXCEPT !.patch = off.s, !.rom = c.s,
                               !.output = OutWrite(@, c.bytes)],
                    PatchReadExact(off.s, 2))
      Offset(off) ==
        IF ~off.ok THEN Fail([st EXCEPT !.patch = off.s], MapPatchErr("UnexpectedEof"))
        ELSE IF U24BE(off.bytes) = EOF_OFFSET
          THEN [st EXCEPT !.patch = off.s, !.pc = "ips_trailer"]
        ELSE Until(off, RomTakeUntil(st.rom, U24BE(off.bytes)))
  IN  Offset(PatchReadExact(st.patch, 3))

\* ips::patch after the EOF marker, without the test that the patch ends
\* after the truncated size
IpsTrailerLax(st) ==
  LET Done(s1) == [Succeed(s1) EXCEPT !.report = [actual_target_size |-> s1.output.tpos]]
      Rest(c) == Done([st EXCEPT !.rom = c.s, !.output = OutWrite(@, c.bytes)])
      Until(t, c) ==
        IF c.err # "none"
          THEN Fail([st EXCEPT !.patch = t.s, !.rom = c.s,
                               !.output = OutWrite(@, c.bytes)],
                    MapRomErr(c.err))
          ELSE Done([st EXCEPT !.patch = t.s, !.rom = c.s,
                               !.output = OutWrite(@, c.bytes)])
      Truncated(t) ==
        IF ~t.ok THEN Fail([st EXCEPT !.patch = t.s], MapPatchErr("UnexpectedEof"))
        ELSE IF U24BE(t.bytes) < st.output.tpos
          THEN Fail([st EXCEPT !.patch = t.s], "BadPatch")
        ELSE Until(t, RomTakeUntil(st.rom, U24BE(t.bytes)))
  IN  IF PatchAtEof(st.patch)
        THEN (IF st.output.tpos = 0 THEN Fail(st, "BadPatch")
              ELSE Rest(RomCopyTo(st.rom)))
        ELSE Truncated(PatchReadExact(st.patch, 3))

\* ips::patch after the EOF marker: the optional truncated size, the rest of
\* the source, the size of the output as result
IpsTrailer(st) ==
  LET Done(s1) == [Succeed(s1) EXCEPT !.report = [actual_target_size |-> s1.output.tpos]]
      Rest(c) == Done([st EXCEPT !.rom = c.s, !.output = OutWrite(@, c.bytes)])
      Until(t, c) ==
        IF c.err # "none"
          THEN Fail([st EXCEPT !.patch = t.s, !.rom = c.s,
                               !.output = OutWrite(@, c.bytes)],
                    MapRomErr(c.err))
          ELSE Done([st EXCEPT !.patch = t.s, !.rom = c.s,
                               !.output = OutWrite(@, c.bytes)])
      Truncated(t) ==
        IF ~t.ok THEN Fail([st EXCEPT !.patch = t.s], MapPatchErr("UnexpectedEof"))
        ELSE IF U24BE(t.bytes) < st.output.tpos \/ ~PatchAtEof(t.s)
          THEN Fail([st EXCEPT !.patch = t.s], "BadPatch")
        ELSE Until(t, RomTakeUntil(st.rom, U24BE(t.bytes)))
  IN  IF PatchAtEof(st.patch)
        THEN (IF st.output.tpos = 0 THEN Fail(st, "BadPatch")
              ELSE Rest(RomCopyTo(st.rom)))
        ELSE Truncated(PatchReadExact(st.patch, 3))

IpsStart == kind = "IPS" /\ pc = "start" /\ Apply(IpsOpen(Cur))

IpsStep == pc = "ips_apply" /\ Apply(IpsRecord(Cur))

IpsFinish == pc = "ips_trailer" /\ Apply(PatcherFinish(IpsTrailer(Cur)))

----------------------------------------------------------------------------
(* Inputs of the IPS decoder *)

MaxTrailer == 9

IpsSources ==
  { <<>>, <<17, 34>>, <<0, 1, 2, 3, 4>>, <<17, 34, 51, 68, 85, 102, 119, 136>> }

\* records: offset, whether run-length encoded, and the bytes they stand for
IpsRec(o, rle, bytes) == [offset |-> o, rle |-> rle, bytes |-> bytes]

IpsMenu ==
  { IpsRec(0, FALSE, <<170, 187>>), IpsRec(1, FALSE, <<255>>),
    IpsRec(2, FALSE, <<255>>), IpsRec(4, FALSE, <<170, 187>>),
    IpsRec(5, FALSE, <<255>>),
    IpsRec(0, TRUE, <<204, 204, 204>>), IpsRec(3, TRUE, <<204, 204>>),
    IpsRec(2, TRUE, <<>>) }

U16Bytes(n) == <<n \div 256, n % 256>>

U24Bytes(n) == <<n \div 65536, (n \div 256) % 256, n % 256>>

IpsRecordBytes(rec) ==
  U24Bytes(rec.offset)
    \o (IF rec.rle
          THEN <<0, 0>> \o U16Bytes(Len(rec.bytes))
                 \o (IF rec.bytes = <<>> THEN <<204>> ELSE <<rec.bytes[1]>>)
          ELSE U16Bytes(Len(rec.bytes)) \o rec.bytes)

\* an IPS file; trailer -1 stands for no trailer; cut bytes are missing at
\* the end
IpsFile(records, trailer, cut) ==
  LET Cut(whole) == SubSeq(whole, 1, Len(whole) - cut)
  IN  Cut(PATCH \o Flatten([i \in 1..Len(records) |-> IpsRecordBytes(records[i])])
                \o U24Bytes(EOF_OFFSET)
                \o (IF trailer < 0 THEN <<>> ELSE U24Bytes(trailer)))

\* how many bytes may follow the truncated size
MaxExtra == 2

InitIps ==
  \E records \in {<<>>} \cup Programs(IpsMenu, MaxCmds),
     trailer \in (-1)..MaxTrailer, cut \in 0..2, extra \in 0..MaxExtra,
     s \in IpsSources :
    /\ cut = 1 => trailer \in {-1, 4}
    /\ cut = 2 => trailer = 4
    /\ extra > 0 => cut = 0 /\ trailer \in {-1, 4, 8}
    /\ InitMachine("IPS", s, IpsFile(records, trailer, cut) \o Zeros(extra), FALSE,
                   [records |-> records, trailer |-> trailer, cut |-> cut,
                    extra |-> extra])

NextIps ==
  \/ IpsStart
  \/ IpsStep
  \/ IpsFinish

SpecIps == InitIps /\ [][NextIps]_vars

----------------------------------------------------------------------------
(* Properties of the IPS decoder *)

\* the source with the bytes of records i.. laid over it at their offsets
RECURSIVE IpsOverlay(_, _, _)
IpsOverlay(data, records, i) ==
  IF i > Len(records) THEN data
  ELSE IpsOverlay(Overlay(data, records[i].offset, records[i].bytes), records, i + 1)

\* where the last record ends
IpsLastEnd(records) ==
  records[Len(records)].offset + Len(records[Len(records)].bytes)

\* the patch is a complete IPS file with at least one record, no record is
\* empty, the offsets ascend without overlap, and the source reaches every
\* record offset
IpsApplicable ==
  /\ kind = "IPS"
  /\ given.cut = 0 /\ given.extra = 0
  /\ Len(given.records) >= 1
  /\ \A i \in 1..Len(given.records) :
       /\ given.records[i].bytes # <<>>
       /\ given.records[i].offset <= Len(rom.data)
       /\ i > 1 => given.records[i].offset >=
                     given.records[i - 1].offset + Len(given.records[i - 1].bytes)

\* what the patch is meant to produce from the source
IpsExpected ==
  IF given.trailer < 0 THEN IpsOverlay(rom.data, given.records, 1)
  ELSE Slice(IpsOverlay(rom.data, given.records, 1), 0, given.trailer)

----------------------------------------------------------------------------
(* PPF decoder (ppf.rs) under Patcher::ppf.  The source is the tracked     *)
(* MonotonicHashingReader, the patch a tracked HashingReader; the output   *)
(* is the HashingWriter itself.                                            *)

PPF10 == <<80, 80, 70, 49, 48>>

PPF20 == <<80, 80, 70, 50, 48>>

PPF30 == <<80, 80, 70, 51, 48>>

BLOCK_CHECK_LENGTH == 1024

\* "@BEGIN_FILE_ID.DIZ"
BEGIN_MAGIC ==
  <<64, 66, 69, 71, 73, 78, 95, 70, 73, 76, 69, 95, 73, 68, 46, 68, 73, 90>>

\* "@END_FILE_ID.DIZ"
END_MAGIC == <<64, 69, 78, 68, 95, 70, 73, 76, 69, 95, 73, 68, 46, 68, 73, 90>>

\* Version::try_from(&[u8; 5]) and Version::try_from(u8); 0 stands for the
\* error
VersionOfMagic(b) ==
  IF b = PPF10 THEN 1 ELSE IF b = PPF20 THEN 2 ELSE IF b = PPF30 THEN 3 ELSE 0

VersionOfByte(v) == IF v \in 0..2 THEN v + 1 ELSE 0

\* ImageType::try_from followed by block_check_offset; -1 stands for the
\* error
BlockCheckOffset(image_type) ==
  IF image_type = 0 THEN 37664 ELSE IF image_type = 1 THEN 32928 ELSE -1

\* u32::from_le_bytes and u64::from_le_bytes, saturating at NumCap
RECURSIVE FromLeBytes(_, _)
FromLeBytes(b, i) ==
  IF i > Len(b) THEN 0 ELSE Sat(b[i] + 256 * FromLeBytes(b, i + 1))

\* patch_err and rom_err of the patch module
PatchErr(k) == "BadPatch"

RomErr(k) == IF k = "UnexpectedEof" THEN "InputFileTooSmall" ELSE "BadPatch"

\* the Format that parse_and_validate returns, and the hasher of the block
\* check
PpfLocals(block_check, can_have_footer, has_undo_data, offset_size) ==
  [patch_result |-> "none", block_check |-> block_check,
   can_have_footer |-> can_have_footer, has_undo_data |-> has_undo_data,
   offset_size |-> offset_size, hasher |-> <<>>]

NoBlockCheck == [present |-> FALSE, start |-> 0, end |-> 0, crc32 |-> <<0, 0>>]

\* Format::parse_and_validate
PpfOpen(st) ==
  LET Format(p, block_check, can_have_footer, has_undo_data, offset_size) ==
        [st EXCEPT !.patch = p, !.pc = "ppf_apply",
                   !.loc = PpfLocals(block_check, can_have_footer, has_undo_data,
                                     offset_size)]
      Bad(p) == Fail([st EXCEPT !.patch = p], "BadPatch")
      Block(block, block_start, has_undo_data, offset_size) ==
        IF ~block.ok THEN Bad(block.s)
        ELSE Format(block.s,
                    [present |-> TRUE, start |-> block_start,
                     end |-> block_start + BLOCK_CHECK_LENGTH,
                     crc32 |-> Crc32(block.bytes)],
                    TRUE, has_undo_data, offset_size)
      Reserved(sk, image_type, has_block_check, has_undo_data) ==
        IF ~sk.ok THEN Bad(sk.s)
        ELSE IF has_block_check = 0
          THEN Format(sk.s, NoBlockCheck, TRUE, has_undo_data = 1, 8)
        ELSE Block(PatchReadExact(sk.s, BLOCK_CHECK_LENGTH),
                   BlockCheckOffset(image_type), has_undo_data = 1, 8)
      HasUndoData(image_type, has_block_check, b) ==
        IF ~b.ok \/ b.bytes \notin {<<0>>, <<1>>} THEN Bad(b.s)
        ELSE Reserved(PatchSeekRelative(b.s, 1), image_type, has_block_check,
                      b.bytes[1])
      HasBlockCheck(image_type, b) ==
        IF ~b.ok \/ b.bytes \notin {<<0>>, <<1>>} THEN Bad(b.s)
        ELSE HasUndoData(image_type, b.bytes[1], PatchReadExact(b.s, 1))
      Image(b) ==
        IF ~b.ok THEN Bad(b.s)
        ELSE IF BlockCheckOffset(b.bytes[1]) < 0 THEN Bad(b.s)
        ELSE HasBlockCheck(b.bytes[1], PatchReadExact(b.s, 1))
      FileSize(size) ==
        IF ~size.ok THEN Bad(size.s)
        ELSE IF FromLeBytes(size.bytes, 1) = 0 THEN Bad(size.s)
        ELSE Block(PatchReadExact(size.s, BLOCK_CHECK_LENGTH), BlockCheckOffset(0),
                   FALSE, 4)
      Description(version, d) ==
        IF ~d.ok THEN Fail([st EXCEPT !.patch = d.s], FromIoError("UnexpectedEof"))
        ELSE IF version = 1 THEN Format(d.s, NoBlockCheck, FALSE, FALSE, 4)
        ELSE IF version = 2 THEN FileSize(PatchReadExact(d.s, 4))
        ELSE Image(PatchReadExact(d.s, 1))
      VersionByte(version, b) ==
        IF ~b.ok THEN Fail([st EXCEPT !.patch = b.s], PatchErr("UnexpectedEof"))
        ELSE IF VersionOfByte(b.bytes[1]) = 0 \/ VersionOfByte(b.bytes[1]) # version
          THEN Bad(b.s)
        ELSE Description(version, PatchReadExact(b.s, 50))
      Magic(magic) ==
        IF ~magic.ok THEN Fail([st EXCEPT !.patch = magic.s], PatchErr("UnexpectedEof"))
        ELSE IF VersionOfMagic(magic.bytes) = 0 THEN Bad(magic.s)
        ELSE VersionByte(VersionOfMagic(magic.bytes), PatchReadExact(magic.s, 1))
  IN  Magic(PatchReadExact(st.patch, 5))

\* rom.copy_until(offset, output), where the loop is still running
PpfCopyUntil(st, offset) ==
  LET Copied(c) ==
        IF c.err # "none"
          THEN Fail([st EXCEPT !.rom = c.s, !.output = OutWrite(@, c.bytes)],
                    RomErr(c.err))
          ELSE [st EXCEPT !.rom = c.s, !.output = OutWrite(@, c.bytes)]
  IN  IF st.pc # "ppf_apply" THEN st ELSE Copied(RomTakeUntil(st.rom, offset))

\* the same through a HashingReader that feeds the hasher of the block check
PpfHashUntil(st, offset) ==
  LET Copied(c) ==
        IF c.err # "none"
          THEN Fail([st EXCEPT !.rom = c.s, !.output = OutWrite(@, c.bytes),
                               !.loc.hasher = @ \o c.bytes],
                    RomErr(c.err))
          ELSE [st EXCEPT !.rom = c.s, !.output = OutWrite(@, c.bytes),
                          !.loc.hasher = @ \o c.bytes]
  IN  IF st.pc # "ppf_apply" THEN st ELSE Copied(RomTakeUntil(st.rom, offset))

\* CheckedRange::overlaps for initial..offset and the block check region
PpfOverlaps(initial, offset, region) ==
  Max(initial, region.start) < Min(offset, region.end)

\* the comparison made once the end of the block check region is passed
PpfBlockCheck(st, initial, is_strict) ==
  IF st.pc # "ppf_apply" THEN st
  ELSE IF /\ initial <= st.loc.block_check.end
          /\ st.loc.block_check.end <= st.rom.tpos
          /\ is_strict
          /\ Crc32(st.loc.hasher) # st.loc.block_check.crc32
    THEN Fail(st, "WrongInputFile")
  ELSE st

\* the source up to the offset of a record goes to the output
PpfCopyRom(st, offset, is_strict) ==
  LET initial == st.rom.tpos
      region == st.loc.block_check
      AfterBlock(s2) ==
        IF s2.pc # "ppf_apply" THEN s2
        ELSE PpfCopyUntil(s2, Max(offset, s2.rom.tpos))
      InBlock(s1) == AfterBlock(PpfHashUntil(s1, Min(offset, region.end)))
  IN  IF initial > offset THEN Fail(st, "BadPatch")
      ELSE IF ~region.present THEN PpfCopyUntil(st, offset)
      ELSE IF ~PpfOverlaps(initial, offset, region)
        THEN PpfBlockCheck(PpfCopyUntil(st, offset), initial, is_strict)
      ELSE PpfBlockCheck(InBlock(PpfCopyUntil(st, Max(region.start, initial))),
                         initial, is_strict)

\* the bytes of a record go to the output; its undo data is skipped
PpfHunk(st, hunk_length) ==
  LET Next(s1) ==
        IF PatchAtEof(s1.patch) THEN [s1 EXCEPT !.pc = "ppf_end"] ELSE s1
      Undo(s1, sk) ==
        IF ~sk.ok THEN Fail(s1, FromIoError("InvalidInput"))
        ELSE Next([s1 EXCEPT !.patch = sk.s])
      Copied(c) ==
        IF ~c.ok
          THEN Fail([st EXCEPT !.patch = c.s, !.output = OutWrite(@, c.bytes)],
                    PatchErr("UnexpectedEof"))
        ELSE IF st.loc.has_undo_data
          THEN Undo([st EXCEPT !.patch = c.s, !.output = OutWrite(@, c.bytes)],
                    PatchSeekRelative(c.s, hunk_length))
        ELSE Next([st EXCEPT !.patch = c.s, !.output = OutWrite(@, c.bytes)])
  IN  IF st.pc # "ppf_apply" THEN st ELSE Copied(PatchReadExact(st.patch, hunk_length))

\* one iteration of the loop of ppf::patch
PpfRecord(st, is_strict) ==
  LET Length(off, len) ==
        IF ~len.ok THEN Fail([st EXCEPT !.patch = len.s], PatchErr("UnexpectedEof"))
        ELSE IF len.bytes[1] = 0 THEN Fail([st EXCEPT !.patch = len.s], "BadPatch")
        ELSE PpfHunk(PpfCopyRom([st EXCEPT !.patch = len.s],
                                FromLeBytes(off.bytes, 1), is_strict),
                     len.bytes[1])
      Offset(off) ==
        IF ~off.ok THEN Fail([st EXCEPT !.patch = off.s], PatchErr("UnexpectedEof"))
        ELSE IF /\ st.loc.can_have_footer
                /\ off.bytes = SubSeq(BEGIN_MAGIC, 1, st.loc.offset_size)
          THEN [st EXCEPT !.patch = off.s, !.pc = "ppf_end"]
        ELSE Length(off, PatchReadExact(off.s, 1))
  IN  Offset(PatchReadExact(st.patch, st.loc.offset_size))

\* ppf::patch after its loop
PpfEnd(st) == IF st.rom.tpos = 0 THEN Fail(st, "BadPatch") ELSE Succeed(st)

PpfStart == kind = "PPF" /\ pc = "start" /\ Apply(PpfOpen(Cur))

PpfStep == pc = "ppf_apply" /\ Apply(PpfRecord(Cur, strict))

PpfFinish == pc = "ppf_end" /\ Apply(PatcherFinish(PpfEnd(Cur)))

----------------------------------------------------------------------------
(* Inputs of the PPF decoder *)

PpfSources == { <<>>, <<17, 34>>, <<0, 1, 2, 3, 4>> }

\* a BIN image that reaches two bytes past its block check region, all
\* zeros but for the first byte of the region, which is b
PpfImage(b) ==
  Zeros(BlockCheckOffset(0)) \o <<b>> \o Zeros(BLOCK_CHECK_LENGTH + 1)

PpfImages == { PpfImage(0), PpfImage(1) }

\* records: offset and replacement bytes
PpfRec(o, bytes) == [offset |-> o, bytes |-> bytes]

PpfMenu ==
  { PpfRec(0, <<170>>), PpfRec(1, <<187, 204>>), PpfRec(3, <<221>>),
    PpfRec(2, <<>>) }

\* records inside the block check region of a BIN image, at its last byte
\* and past its end
PpfFarMenu ==
  { PpfRec(BlockCheckOffset(0) + 6, <<170>>),
    PpfRec(BlockCheckOffset(0) + BLOCK_CHECK_LENGTH - 1, <<170>>),
    PpfRec(BlockCheckOffset(0) + BLOCK_CHECK_LENGTH + 1, <<170>>) }

\* n as size little-endian bytes
RECURSIVE LeBytes(_, _)
LeBytes(n, size) ==
  IF size = 0 THEN <<>> ELSE <<n % 256>> \o LeBytes(n \div 256, size - 1)

\* a record as the loop of ppf::patch reads it; undo data is the bytes 1, 2,
\* ... and follows the replacement bytes
PpfRecordBytes(rec, offset_size, has_undo_data) ==
  LeBytes(rec.offset, offset_size) \o <<Len(rec.bytes)>> \o rec.bytes
    \o (IF has_undo_data THEN [i \in 1..Len(rec.bytes) |-> i] ELSE <<>>)

\* the file-ID footer with a two-byte body
PpfFooter(version) ==
  BEGIN_MAGIC \o <<72, 105>> \o END_MAGIC \o LeBytes(2, IF version = 2 THEN 4 ELSE 2)

\* the header up to the records; f describes the file
PpfHeader(f) ==
  (IF f.version = 1 THEN PPF10 ELSE IF f.version = 2 THEN PPF20 ELSE PPF30)
    \o <<IF f.tamper = "version" THEN f.version ELSE f.version - 1>>
    \o [i \in 1..50 |-> 32]
    \o (IF f.version = 1 THEN <<>>
        ELSE IF f.version = 2
          THEN LeBytes(IF f.tamper = "size" THEN 0 ELSE 5, 4) \o Zeros(BLOCK_CHECK_LENGTH)
        ELSE <<IF f.tamper = "image" THEN 2 ELSE 0,
               IF f.block THEN 1 ELSE 0,
               IF f.undo THEN 1 ELSE 0,
               0>>
             \o (IF f.block THEN Zeros(BLOCK_CHECK_LENGTH) ELSE <<>>))

\* a PPF file; cut bytes are missing at the end
PpfFile(f) ==
  LET Cut(whole) == SubSeq(whole, 1, Len(whole) - f.cut)
  IN  Cut(PpfHeader(f)
            \o Flatten([i \in 1..Len(f.records) |->
                          PpfRecordBytes(f.records[i],
                                         IF f.version = 3 THEN 8 ELSE 4, f.undo)])
            \o (IF ~f.footer THEN <<>>
                ELSE IF f.tamper = "begin" THEN <<35>> \o Tail(PpfFooter(f.version))
                ELSE IF f.tamper = "body"
                  THEN BEGIN_MAGIC \o <<72, 105>> \o END_MAGIC \o LeBytes(4000, 2)
                ELSE PpfFooter(f.version)))

\* the files of the model: versions 1 and 3 with every program, with and
\* without undo data, footer, damage and a missing last byte; files with a
\* block check with one record
PpfFiles ==
  { f \in [version : {1, 2, 3}, block : BOOLEAN, undo : BOOLEAN, footer : BOOLEAN,
           records : {<<>>} \cup Programs(PpfMenu, MaxCmds)
                       \cup {<<r>> : r \in PpfFarMenu},
           cut : 0..1,
           tamper : {"none", "version", "size", "image", "begin", "body"}] :
      /\ f.version = 1 => (~f.block /\ ~f.undo /\ ~f.footer
                           /\ f.tamper \in {"none", "version"})
      /\ f.version = 2 => (f.block /\ ~f.undo /\ f.tamper \in {"none", "size"})
      /\ f.version = 3 => f.tamper \in {"none", "image", "begin", "body"}
      /\ f.tamper \in {"begin", "body"} => (f.footer /\ ~f.block /\ ~f.undo)
      /\ f.block => (Len(f.records) = 1 /\ f.cut = 0)
      /\ f.tamper # "none" => (Len(f.records) = 1 /\ f.cut = 0)
      /\ f.tamper \in {"version", "size", "image"} => ~f.footer
      /\ (f.records # <<>> /\ f.records[1] \in PpfFarMenu) =>
           (f.block /\ ~f.undo /\ ~f.footer /\ f.tamper = "none") }

InitPpf ==
  \E f \in PpfFiles, s \in PpfSources, is_strict \in BOOLEAN :
    /\ is_strict => f.block
    /\ InitMachine("PPF", s, PpfFile(f), is_strict, f)

NextPpf ==
  \/ PpfStart
  \/ PpfStep
  \/ PpfFinish

SpecPpf == InitPpf /\ [][NextPpf]_vars

\* the same with, in strict mode, PPF 2.0 files of one record applied to
\* BIN images that hold the block check region
InitPpfImage ==
  \/ InitPpf
  \/ \E f \in PpfFiles, s \in PpfImages :
       /\ f.version = 2 /\ ~f.footer /\ f.tamper = "none"
       /\ f.records \in {<<PpfRec(1, <<187, 204>>)>>} \cup {<<r>> : r \in PpfFarMenu}
       /\ s = PpfImage(0) => f.records[1].offset = BlockCheckOffset(0) + 6
       /\ InitMachine("PPF", s, PpfFile(f), TRUE, f)

SpecPpfImage == InitPpfImage /\ [][NextPpf]_vars

----------------------------------------------------------------------------
(* Vcdiff decoder (vcd.rs) under Patcher::vcdiff.  Source, patch and       *)
(* output are tracked as for IPS.                                          *)

\* set_msb
SetMsb(arr) == [i \in 1..Len(arr) |-> BitAnd(arr[i], 128)]

\* vcd::MAGIC, set_msb applied to "VCD"
VCD_MAGIC == SetMsb(<<86, 67, 68>>)

VCD_DECOMPRESS == 1

VCD_CODETABLE == 2

HAS_APPHEADER == 4

VCD_SOURCE == 1

VCD_TARGET == 2

NEAR_SIZE == 4

SAME_SIZE == 768

\* number of significant bits of n
RECURSIVE BitLen(_)
BitLen(n) == IF n = 0 THEN 0 ELSE 1 + BitLen(n \div 2)

\* VcdiffRead::read_integer::<N> for N of `width` bits on the bytes of s from
\* offset at and below offset lim.  acc holds the value as limbs, the same
\* saturated at NumCap, and the number of its significant bits: the
\* multiplication by 128 overflows iff more than width - 7 of them are in
\* use.  err is "none", "UnexpectedEof" or "InvalidData"; n is the number
\* of bytes consumed.
RECURSIVE ReadIntegerAt(_, _, _, _, _, _)
ReadIntegerAt(s, at, lim, i, acc, width) ==
  IF acc.bits > width - 7
    THEN [err |-> "InvalidData", value |-> 0, n |-> i, limbs |-> ZeroLimbs]
  ELSE IF at + i >= Min(lim, Len(s))
    THEN [err |-> "UnexpectedEof", value |-> 0, n |-> i, limbs |-> ZeroLimbs]
  ELSE LET byte == s[at + i + 1]
           next == [value |-> Sat(acc.value * 128 + (byte % 128)),
                    bits  |-> IF acc.bits = 0 THEN BitLen(byte % 128) ELSE acc.bits + 7,
                    limbs |-> [j \in 1..10 |->
                                 IF j = 1 THEN byte % 128 ELSE acc.limbs[j - 1]]]
       IN  IF byte < 128
             THEN [err |-> "none", value |-> next.value, n |-> i + 1,
                   limbs |-> next.limbs]
           ELSE ReadIntegerAt(s, at, lim, i + 1, next, width)

\* the value read_integer starts from
ZeroInteger == [value |-> 0, bits |-> 0, limbs |-> ZeroLimbs]

\* read_integer on the tracked, hashed patch stream, below offset lim
PatchReadInteger(p, lim, width) ==
  LET Consume(r) ==
        [s |-> PatchRead(p, r.n).s, err |-> r.err, value |-> r.value, limbs |-> r.limbs]
  IN  Consume(ReadIntegerAt(p.data, p.raw, lim, 0, ZeroInteger, width))

\* a read of exactly n bytes of the patch through Take: below offset lim
PatchReadBelow(p, n, lim) ==
  LET Exactly(m) == [s |-> m.s, bytes |-> m.bytes, ok |-> Len(m.bytes) = n]
  IN  Exactly(PatchRead(p, Max(0, Min(n, lim - p.raw))))

\* the decoder returns Ok(Err(e)): Patcher::vcdiff looks at the outer
\* io::Result only and goes on
VcdReject(st, e) == [st EXCEPT !.pc = "finish", !.loc.patch_result = e]

\* the decoder returns Err(io error of kind k): Patcher::vcdiff converts it
VcdIoFail(st, k) == Return([st EXCEPT !.loc.patch_result = "io"], FromIoError(k))

\* Buffers::new and Buffers::clear_all
Buffers ==
  [superstring |-> <<>>, add_and_run_data |-> <<>>,
   instructions_and_sizes |-> <<>>, copy_addresses |-> <<>>]

\* Patcher::new
VcdLocals == [patch_result |-> "none", buffers |-> Buffers]

\* vcd::patch: the header
VcdOpen(st) ==
  LET Skipped(sk) ==
        IF ~sk.ok THEN VcdIoFail([st EXCEPT !.patch = sk.s], "InvalidInput")
        ELSE [st EXCEPT !.patch = sk.s, !.pc = "vcd_window", !.loc = VcdLocals]
      HeaderSize(n) ==
        IF n.err # "none" THEN VcdReject([st EXCEPT !.patch = n.s], MapPatchErr(n.err))
        ELSE Skipped(PatchSeekRelative(n.s, n.value))
      Indicator(b) ==
        IF ~b.ok THEN VcdReject([st EXCEPT !.patch = b.s], MapPatchErr("UnexpectedEof"))
        ELSE IF BitAnd(b.bytes[1], VCD_CODETABLE + VCD_DECOMPRESS) # 0
          THEN VcdReject([st EXCEPT !.patch = b.s], "UnsupportedPatchFeature")
        ELSE IF BitAnd(b.bytes[1], HAS_APPHEADER) # 0
          THEN HeaderSize(PatchReadInteger(b.s, Len(b.s.data), 32))
        ELSE [st EXCEPT !.patch = b.s, !.pc = "vcd_window", !.loc = VcdLocals]
      Version(b) ==
        IF ~b.ok THEN VcdReject([st EXCEPT !.patch = b.s], MapPatchErr("UnexpectedEof"))
        ELSE IF b.bytes[1] # 0
          THEN VcdReject([st EXCEPT !.patch = b.s], "UnsupportedPatchFeature")
        ELSE Indicator(PatchReadExact(b.s, 1))
      Magic(magic) ==
        IF ~magic.ok
          THEN VcdReject([st EXCEPT !.patch = magic.s], MapPatchErr("UnexpectedEof"))
        ELSE IF magic.bytes # VCD_MAGIC
          THEN VcdReject([st EXCEPT !.patch = magic.s], "BadPatch")
        ELSE Version(PatchReadExact(magic.s, 1))
  IN  Magic(PatchReadExact(st.patch, 3))

\* decode_instruction_pair; size 0 stands for None
Instruction(op, size, mode) == [op |-> op, size |-> size, mode |-> mode]

DecodeInstructionPair(index) ==
  LET Noop == Instruction("Noop", 0, 0)
  IN  IF index = 0 THEN <<Instruction("Run", 0, 0), Noop>>
      ELSE IF index <= 18 THEN <<Instruction("Add", index - 1, 0), Noop>>
      ELSE IF index <= 162
        THEN <<Instruction("Copy",
                           IF (index - 19) % 16 = 0 THEN 0 ELSE 3 + (index - 19),
                           (index - 19) \div 16),
               Noop>>
      ELSE IF index <= 234
        THEN <<Instruction("Add", 1 + (((index - 163) \div 3) % 4), 0),
               Instruction("Copy", 4 + ((index - 163) % 3), (index - 163) \div 12)>>
      ELSE IF index <= 246
        THEN <<Instruction("Add", 1 + ((index - 235) % 4), 0),
               Instruction("Copy", 4, (index - 235) \div 4)>>
      ELSE <<Instruction("Copy", 4, index - 247), Instruction("Add", 1, 0)>>

\* Cursors::new: the cursors over the buffers of a window and the address
\* cache; status is "run" while instructions execute
Cursors(buffers, source_window_len) ==
  [super |-> buffers.superstring, source_len |-> source_window_len,
   pos |-> source_window_len,
   data |-> buffers.add_and_run_data, dpos |-> 0,
   inst |-> buffers.instructions_and_sizes, ipos |-> 0,
   addr |-> buffers.copy_addresses, apos |-> 0,
   near |-> [i \in 1..NEAR_SIZE |-> 0], next_slot |-> 0,
   same |-> [i \in 0..(SAME_SIZE - 1) |-> 0],
   status |-> "run", error |-> "none"]

\* read_integer::<u32> on a cursor over buf at position pos
CursorInteger(buf, pos) ==
  ReadIntegerAt(buf, pos, Len(buf), 0, ZeroInteger, 32)

\* WindowCursor::split_for_write finds size unwritten bytes, size > 0
CanWrite(w, size) == size > 0 /\ w.pos + size <= Len(w.super)

\* AddressCache::update
CacheUpdate(w, address) ==
  [w EXCEPT !.near[w.next_slot + 1] = address,
            !.next_slot = (@ + 1) % NEAR_SIZE,
            !.same[address % SAME_SIZE] = address]

\* AddressDecoder::decode: the cursors afterwards, the error and the address
AddressDecode(w, here, mode) ==
  LET Failed(w1, e) == [w |-> w1, err |-> e, address |-> 0]
      Decoded(w1, address) ==
        [w |-> CacheUpdate(w1, address), err |-> "none", address |-> address]
      Varint(r) ==
        IF r.err # "none" THEN Failed([w EXCEPT !.apos = @ + r.n], r.err)
        ELSE IF mode = 0 THEN Decoded([w EXCEPT !.apos = @ + r.n], r.value)
        ELSE IF mode = 1
          THEN (IF here < r.value
                  THEN Failed([w EXCEPT !.apos = @ + r.n], "InvalidData")
                  ELSE Decoded([w EXCEPT !.apos = @ + r.n], here - r.value))
        ELSE Decoded([w EXCEPT !.apos = @ + r.n], Sat(w.near[mode - 1] + r.value))
  IN  IF mode < 2 + NEAR_SIZE THEN Varint(CursorInteger(w.addr, w.apos))
      ELSE IF mode < 2 + NEAR_SIZE + 3
        THEN (IF w.apos >= Len(w.addr) THEN Failed(w, "UnexpectedEof")
              ELSE Decoded([w EXCEPT !.apos = @ + 1],
                           w.same[(mode - 2 - NEAR_SIZE) * 256 + w.addr[w.apos + 1]]))
      ELSE Failed(w, "InvalidData")

\* Instruction::Run.  An Ok(Err(BadPatch)) of execute_instruction is not
\* looked at by process_window: the cursors stay as the failed instruction
\* left them and the loop goes on.
ExecuteRun(w) ==
  LET Sized(byte, w1, n) ==
        IF n.err # "none" \/ ~CanWrite(w1, n.value)
          THEN [w1 EXCEPT !.ipos = @ + n.n]
          ELSE [w1 EXCEPT !.ipos = @ + n.n,
                          !.super = Overlay(@, w1.pos, [i \in 1..n.value |-> byte]),
                          !.pos = @ + n.value]
  IN  IF w.dpos >= Len(w.data) THEN w
      ELSE Sized(w.data[w.dpos + 1], [w EXCEPT !.dpos = @ + 1],
                 CursorInteger(w.inst, w.ipos))

\* Instruction::Add { size }: an error of read_instruction_size is an
\* io::Error that leaves process_window
ExecuteAdd(w, size) ==
  LET Write(w1, n, bytes) ==
        IF Len(bytes) < n
          THEN [w1 EXCEPT !.super = Overlay(@, w1.pos, bytes), !.dpos = @ + Len(bytes)]
          ELSE [w1 EXCEPT !.super = Overlay(@, w1.pos, bytes), !.dpos = @ + Len(bytes),
                          !.pos = @ + n]
      Sized(w1, n) ==
        IF ~CanWrite(w1, n) THEN w1
        ELSE Write(w1, n, Slice(w1.data, w1.dpos, w1.dpos + n))
      Read(r) ==
        IF r.err # "none"
          THEN [w EXCEPT !.ipos = @ + r.n, !.status = "io", !.error = r.err]
          ELSE Sized([w EXCEPT !.ipos = @ + r.n], r.value)
  IN  IF size # 0 THEN Sized(w, size) ELSE Read(CursorInteger(w.inst, w.ipos))

\* Instruction::Copy { size, mode }: the closure slices the written part of
\* the superstring from address to sequence_len, which panics if the slice
\* does not exist; RepeatSlice::new asserts more than one byte, and
\* RepeatSlice::read does not return for a non-empty buffer
ExecuteCopy(w, size, mode) ==
  LET Copy(w2, n, address) ==
        IF ~CanWrite(w2, n) THEN w2
        ELSE IF Min(address + n, w2.pos) - address <= 1
          THEN [w2 EXCEPT !.status = "panic"]
        ELSE [w2 EXCEPT !.status = "hang"]
      Addressed(n, a) ==
        IF a.err # "none" THEN a.w ELSE Copy(a.w, n, a.address)
      Sized(w1, n) == Addressed(n, AddressDecode(w1, w1.pos - w1.source_len, mode))
      Read(r) ==
        IF r.err # "none" THEN [w EXCEPT !.ipos = @ + r.n]
        ELSE Sized([w EXCEPT !.ipos = @ + r.n], r.value)
  IN  IF size # 0 THEN Sized(w, size) ELSE Read(CursorInteger(w.inst, w.ipos))

\* Patcher::execute_instruction
ExecuteInstruction(w, instruction) ==
  IF w.status # "run" \/ instruction.op = "Noop" THEN w
  ELSE IF instruction.op = "Run" THEN ExecuteRun(w)
  ELSE IF instruction.op = "Add" THEN ExecuteAdd(w, instruction.size)
  ELSE ExecuteCopy(w, instruction.size, instruction.mode)

\* the instruction loop of process_window: status becomes "done" when the
\* instructions are used up, "reject" when there is none to begin with
RECURSIVE ExecuteAll(_)
ExecuteAll(w) ==
  LET After(w2) ==
        IF w2.status # "run" THEN w2
        ELSE IF w2.ipos >= Len(w2.inst) THEN [w2 EXCEPT !.status = "done"]
        ELSE ExecuteAll(w2)
      Pair(pair, w1) ==
        After(ExecuteInstruction(ExecuteInstruction(w1, pair[1]), pair[2]))
  IN  IF w.ipos >= Len(w.inst) THEN [w EXCEPT !.status = "reject"]
      ELSE Pair(DecodeInstructionPair(w.inst[w.ipos + 1]), [w EXCEPT !.ipos = @ + 1])

\* a VCD_TARGET window that stays at source_position
TargetWindowWithoutReturn(st, source_len, source_position) ==
  LET Sought(sk) ==
        IF ~sk.ok THEN VcdIoFail([st EXCEPT !.output = sk.s], "InvalidInput")
        ELSE [st EXCEPT !.output = sk.s]
  IN  Sought(OutSeekStart(st.output, source_position))

\* process_window, VCD_TARGET: output.seek(Start(source_position)), then,
\* inside with_bufwrite_inner, copy_to_slice of at most source_len bytes of
\* the file into the superstring as long as it is now, which must use up
\* source_len, and a seek to the end of the file
VcdTargetWindow(st, source_len, source_position) ==
  LET ReadBack(o, bytes) ==
        IF Len(bytes) < source_len
          THEN VcdReject([st EXCEPT !.output = [o EXCEPT !.raw = @ + Len(bytes)]],
                         MapPatchErr("UnexpectedEof"))
          ELSE [st EXCEPT !.output = [o EXCEPT !.raw = Len(o.data),
                                               !.tpos = Len(o.data)],
                          !.loc.buffers.superstring =
                            Overlay(@, 0, bytes)]
      Sought(sk) ==
        IF ~sk.ok THEN VcdIoFail([st EXCEPT !.output = sk.s], "InvalidInput")
        ELSE ReadBack(sk.s,
                      Slice(sk.s.data, sk.s.raw,
                            sk.s.raw + Min(source_len,
                                           Len(st.loc.buffers.superstring))))
  IN  Sought(OutSeekStart(st.output, source_position))

\* process_window, VCD_SOURCE: rom.seek(Start(source_position)), then
\* source_len bytes of the source are appended to the superstring
VcdSourceWindow(st, source_len, source_position) ==
  LET Copied(c) ==
        IF ~c.ok
          THEN VcdReject([st EXCEPT !.rom = c.s,
                                    !.loc.buffers.superstring = @ \o c.bytes],
                         MapRomErr("UnexpectedEof"))
          ELSE [st EXCEPT !.rom = c.s, !.loc.buffers.superstring = @ \o c.bytes]
      Sought(sk) ==
        IF ~sk.ok THEN VcdIoFail([st EXCEPT !.rom = sk.s], "InvalidInput")
        ELSE Copied(RomTakeExactly(sk.s, source_len))
  IN  Sought(RomSeekStart(st.rom, source_position))

\* process_window up to the source window: the decoder state and the length
\* of the source window
VcdWindowOpen(st) ==
  LET Position(ind, len, position) ==
        IF position.err # "none"
          THEN VcdReject([st EXCEPT !.patch = position.s], MapPatchErr(position.err))
        ELSE IF ind = VCD_SOURCE
          THEN VcdSourceWindow([st EXCEPT !.patch = position.s], len.value,
                               position.value)
        ELSE VcdTargetWindow([st EXCEPT !.patch = position.s], len.value,
                             position.value)
      Length(ind, len) ==
        IF len.err # "none"
          THEN VcdReject([st EXCEPT !.patch = len.s], MapPatchErr(len.err))
          ELSE Position(ind, len, PatchReadInteger(len.s, Len(len.s.data), 64))
      Indicator(b) ==
        IF ~b.ok THEN VcdReject([st EXCEPT !.patch = b.s], MapPatchErr("UnexpectedEof"))
        ELSE IF b.bytes[1] = 0 THEN [st EXCEPT !.patch = b.s]
        ELSE IF b.bytes[1] \in {VCD_SOURCE, VCD_TARGET}
          THEN Length(b.bytes[1], PatchReadInteger(b.s, Len(b.s.data), 32))
        ELSE VcdReject([st EXCEPT !.patch = b.s], "BadPatch")
  IN  Indicator(PatchReadExact(st.patch, 1))

\* process_window after the instruction loop: the target window goes to the
\* output, or the window ends the decoder
VcdWindowClose(st, w) ==
  LET Kept(s1) ==
        [s1 EXCEPT !.loc.buffers.superstring = w.super]
  IN  IF w.status = "done"
        THEN [Kept(st) EXCEPT !.output =
                OutWrite(@, SubSeq(w.super, w.source_len + 1, Len(w.super)))]
      ELSE IF w.status = "reject" THEN VcdReject(Kept(st), MapPatchErr("UnexpectedEof"))
      ELSE IF w.status = "io" THEN VcdIoFail(Kept(st), w.error)
      ELSE [Kept(st) EXCEPT !.pc = w.status]

\* process_window from the delta encoding on; source_window_len is the
\* length of the superstring
VcdWindowBody(st) ==
  LET source_window_len == Len(st.loc.buffers.superstring)
      Rejected(p, e) == VcdReject([st EXCEPT !.patch = p], MapPatchErr(e))
      Addresses(lim, tlen, data, inst, addr) ==
        IF ~addr.ok THEN Rejected(addr.s, "UnexpectedEof")
        ELSE VcdWindowClose(
               [st EXCEPT !.patch = addr.s,
                          !.loc.buffers =
                            [superstring |-> st.loc.buffers.superstring \o Zeros(tlen),
                             add_and_run_data |-> data.bytes,
                             instructions_and_sizes |-> inst.bytes,
                             copy_addresses |-> addr.bytes]],
               ExecuteAll(Cursors(
                 [superstring |-> st.loc.buffers.superstring \o Zeros(tlen),
                  add_and_run_data |-> data.bytes,
                  instructions_and_sizes |-> inst.bytes,
                  copy_addresses |-> addr.bytes],
                 source_window_len)))
      Instructions(lim, tlen, alen, data, inst) ==
        IF ~inst.ok THEN Rejected(inst.s, "UnexpectedEof")
        ELSE Addresses(lim, tlen, data, inst, PatchReadBelow(inst.s, alen, lim))
      Data(lim, tlen, ilen, alen, data) ==
        IF ~data.ok THEN Rejected(data.s, "UnexpectedEof")
        ELSE Instructions(lim, tlen, alen, data, PatchReadBelow(data.s, ilen, lim))
      AddressesLen(lim, tlen, dlen, ilen, alen) ==
        IF alen.err # "none" THEN Rejected(alen.s, alen.err)
        ELSE Data(lim, tlen, ilen.value, alen.value,
                  PatchReadBelow(alen.s, dlen.value, lim))
      InstructionsLen(lim, tlen, dlen, ilen) ==
        IF ilen.err # "none" THEN Rejected(ilen.s, ilen.err)
        ELSE AddressesLen(lim, tlen, dlen, ilen, PatchReadInteger(ilen.s, lim, 32))
      DataLen(lim, tlen, dlen) ==
        IF dlen.err # "none" THEN Rejected(dlen.s, dlen.err)
        ELSE InstructionsLen(lim, tlen, dlen, PatchReadInteger(dlen.s, lim, 32))
      DeltaIndicator(lim, tlen, b) ==
        IF ~b.ok THEN Rejected(b.s, "UnexpectedEof")
        ELSE IF b.bytes[1] # 0 THEN VcdReject([st EXCEPT !.patch = b.s], "BadPatch")
        ELSE DataLen(lim, tlen, PatchReadInteger(b.s, lim, 32))
      TargetWindowLen(lim, tlen) ==
        IF tlen.err # "none" THEN Rejected(tlen.s, tlen.err)
        ELSE DeltaIndicator(lim, tlen.value, PatchReadBelow(tlen.s, 1, lim))
      EncodingLen(elen) ==
        IF elen.err # "none" THEN VcdIoFail([st EXCEPT !.patch = elen.s], elen.err)
        ELSE TargetWindowLen(elen.s.raw + elen.value,
                             PatchReadInteger(elen.s, elen.s.raw + elen.value, 32))
  IN  IF st.pc # "vcd_window" THEN st
      ELSE EncodingLen(PatchReadInteger(st.patch, Len(st.patch.data), 32))

\* the loop of vcd::patch after process_window returned Ok(Ok(()))
VcdNext(st) ==
  IF st.pc # "vcd_window" THEN st
  ELSE IF PatchAtEof(st.patch) THEN Succeed(st)
  ELSE [st EXCEPT !.loc.buffers = Buffers]

\* one iteration of the loop of vcd::patch
VcdProcessWindow(st) == VcdNext(VcdWindowBody(VcdWindowOpen(st)))

VcdStart == kind = "VCD" /\ pc = "start" /\ Apply(VcdOpen(Cur))

VcdStep == pc = "vcd_window" /\ Apply(VcdProcessWindow(Cur))

VcdFinish == kind = "VCD" /\ pc = "finish" /\ Apply(PatcherFinish(Cur))

\* Vcdiff inputs: files of a header and one or two windows.  Every number
\* of these files is below 128 and takes one byte.

VcdSources == { <<>>, <<17, 34>> }

VcdWin(ind, slen, spos, tlen, delta, data, inst, addr, slack) ==
  [ind |-> ind, slen |-> slen, spos |-> spos, tlen |-> tlen, delta |-> delta,
   data |-> data, inst |-> inst, addr |-> addr, slack |-> slack]

VcdMenu ==
  { VcdWin(0, 0, 0, 2, 0, <<170, 187>>, <<3>>, <<>>, 0),       \* ADD 2
    VcdWin(0, 0, 0, 3, 0, <<204>>, <<0, 3>>, <<>>, 0),         \* RUN 3
    VcdWin(0, 0, 0, 2, 0, <<170>>, <<2>>, <<>>, 0),            \* ADD 1 of 2
    VcdWin(0, 0, 0, 1, 0, <<170, 187>>, <<3>>, <<>>, 0),       \* ADD 2 into 1
    VcdWin(0, 0, 0, 1, 0, <<170>>, <<1, 1>>, <<>>, 0),         \* ADD, size apart
    VcdWin(0, 0, 0, 1, 0, <<170>>, <<1>>, <<>>, 0),            \* size missing
    VcdWin(0, 0, 0, 1, 0, <<>>, <<>>, <<>>, 0),                \* no instruction
    VcdWin(0, 0, 0, 1, 1, <<170>>, <<2>>, <<>>, 0),            \* delta_indicator
    VcdWin(0, 0, 0, 1, 0, <<170>>, <<2>>, <<>>, -1),           \* encoding short
    VcdWin(0, 0, 0, 1, 0, <<170>>, <<2>>, <<>>, 1),            \* encoding long
    VcdWin(VCD_SOURCE, 2, 0, 1, 0, <<170>>, <<2>>, <<>>, 0),
    VcdWin(VCD_SOURCE, 1, 1, 1, 0, <<170>>, <<2>>, <<>>, 0),
    VcdWin(VCD_SOURCE, 2, 0, 2, 0, <<>>, <<19, 2>>, <<0>>, 0), \* COPY 2 at 0
    VcdWin(VCD_SOURCE, 2, 0, 1, 0, <<>>, <<19, 1>>, <<1>>, 0), \* COPY 1 at 1
    VcdWin(VCD_SOURCE, 2, 0, 4, 0, <<>>, <<20>>, <<9>>, 0),    \* COPY 4 at 9
    VcdWin(VCD_TARGET, 0, 0, 1, 0, <<170>>, <<2>>, <<>>, 0),
    VcdWin(VCD_TARGET, 0, 1, 1, 0, <<170>>, <<2>>, <<>>, 0),
    VcdWin(VCD_TARGET, 1, 0, 1, 0, <<170>>, <<2>>, <<>>, 0),
    VcdWin(3, 0, 0, 1, 0, <<170>>, <<2>>, <<>>, 0) }

VcdWindowBytes(w) ==
  <<w.ind>>
    \o (IF w.ind \in {VCD_SOURCE, VCD_TARGET} THEN <<w.slen, w.spos>> ELSE <<>>)
    \o <<5 + Len(w.data) + Len(w.inst) + Len(w.addr) + w.slack, w.tlen, w.delta,
         Len(w.data), Len(w.inst), Len(w.addr)>>
    \o w.data \o w.inst \o w.addr

\* the headers: the magic the decoder accepts and the one of the format,
\* versions 0 and 1, and the header indicators, 4 with an application
\* header of one byte
VcdHeaders ==
  { <<0, 0, 0, 0, 0>>, <<214, 195, 196, 0, 0>>, <<0, 0, 0, 1, 0>>,
    <<0, 0, 0, 0, 1>>, <<0, 0, 0, 0, 2>>, <<0, 0, 0, 0, 4, 1, 65>>,
    <<0, 0, 0, 0, 4, 129>>, <<0, 0, 0>> }

VcdFile(header, windows, cut) ==
  LET whole == header \o Flatten([i \in 1..Len(windows) |-> VcdWindowBytes(windows[i])])
  IN  SubSeq(whole, 1, Len(whole) - cut)

InitVcd ==
  \E header \in VcdHeaders, windows \in Programs(VcdMenu, MaxCmds), cut \in 0..1,
     s \in VcdSources :
    /\ header # <<0, 0, 0, 0, 0>> => (Len(windows) = 1 /\ cut = 0)
    /\ InitMachine("VCD", s, VcdFile(header, windows, cut), FALSE,
                   [header |-> header, windows |-> windows, cut |-> cut])

NextVcd ==
  \/ VcdStart
  \/ VcdStep
  \/ VcdFinish

SpecVcd == InitVcd /\ [][NextVcd]_vars

----------------------------------------------------------------------------
(* Patcher::patch over all five formats *)

Init == InitByuu \/ InitIps \/ InitPpf \/ InitVcd

Next ==
  \/ NextByuu
  \/ NextIps
  \/ NextPpf
  \/ NextVcd

Spec == Init /\ [][Next]_vars

\* Patcher::patch returned Ok(checksums)
Patched == pc = "done" /\ result = "Ok"

\* the decoder itself returned success, and so did Patcher::patch
Decoded == Patched /\ loc.patch_result = "Ok"

\* C1: whenever patching returns success, for any of the five decoders, the
\* reported source CRC-32 is the CRC-32 of the whole source file, whatever
\* part of the source the patch read, skipped or sought over.
C1_SourceCrcWholeFile ==
  Patched => checksums.source_crc32 = Crc32(rom.data)

\* a Vcdiff patch whose source window starts one byte into the source has
\* been applied: the first byte of the source was skipped by a seek
C1_Witness ==
  /\ Patched
  /\ kind = "VCD"
  /\ loc.patch_result = "Ok"
  /\ given.windows[1].ind = VCD_SOURCE
  /\ given.windows[1].spos = 1
  /\ Len(rom.data) = 2

\* C2: whenever a decoder succeeds and patching returns success, the
\* reported whole-file patch CRC-32 is the CRC-32 of all bytes of the patch
\* file, skipped bytes included.
C2_PatchCrcWholeFile ==
  Decoded => checksums.patch_crc32 = Crc32(patch.data)

\* C3: whenever patching returns success, the reported target CRC-32 is the
\* CRC-32 of the output file from offset 0 to its end, also when the decoder
\* sought back into the output before appending more.
C3_TargetCrcWholeFile ==
  Patched => checksums.target_crc32 = Crc32(output.data)

\* a Vcdiff patch of two windows has been applied, the second one a
\* VCD_TARGET window that seeks back to the start of the output
C3_Witness ==
  /\ Decoded
  /\ kind = "VCD"
  /\ Len(given.windows) = 2
  /\ given.windows[2].ind = VCD_TARGET
  /\ given.windows[2].spos = 0
  /\ Len(output.data) >= 2

\* the output is where the decoder's success leaves it: position and length
\* agree with each other and with the sizes the decoder reports
OutputAtTargetSize ==
  Decoded =>
    /\ output.raw = Len(output.data)
    /\ output.tpos = Len(output.data)
    /\ kind \in {"IPS", "UPS", "BPS"} => report.actual_target_size = Len(output.data)
    /\ kind \in {"UPS", "BPS"} => report.expected_target_size = Len(output.data)

\* a step leaves every byte of the output file as it was
OutputAppendOnly == Slice(output'.data, 0, Len(output.data)) = output.data

\* C9: when a decoder succeeds, the write position of the output and its
\* length both equal the target size (the one reported, and for BPS and UPS
\* the one of the patch header); and no step of any decoder, a seek into the
\* output by BPS TargetCopy or a Vcdiff VCD_TARGET window included, changes
\* a byte that the output already holds.
C9_OutputAtTargetSize == []OutputAtTargetSize /\ [][OutputAppendOnly]_vars

\* a Vcdiff patch has been applied whose second window is a VCD_TARGET
\* window seeking to offset 1 of an output that already held two bytes or
\* more
C9_Witness ==
  /\ Decoded
  /\ kind = "VCD"
  /\ Len(given.windows) = 2
  /\ given.windows[2].ind = VCD_TARGET
  /\ given.windows[2].spos = 1
  /\ given.windows[1].tlen >= 2
  /\ Len(output.data) = given.windows[1].tlen + 1

----------------------------------------------------------------------------
(* Properties of the decoders' copy operations *)

\* the source from the cursor on, then zeros, n bytes in all
PaddedRest(r, n) ==
  LET rest == Slice(r.data, r.raw, r.raw + n)
  IN  rest \o Zeros(n - Len(rest))

\* C11: when the target_size of a UPS patch is larger than the source, the
\* step after the last hunk completes the output up to target_size with
\* the rest of the source followed by zeros, and the hunks have been
\* applied successfully.
C11_UpsTailPadded ==
  [][(/\ pc = "ups_rest"
      /\ loc.expected_target_size > Len(rom.data)
      /\ Len(output.data) <= loc.expected_target_size) =>
       (/\ loc'.patch_result = "Ok"
        /\ output'.data =
             output.data \o PaddedRest(rom, loc.expected_target_size - Len(output.data)))]_vars

\* data after n bytes are appended one at a time, each the byte at offset
\* from, from + 1, ... of the data as it stands when the byte is appended
RECURSIVE SelfCopy(_, _, _)
SelfCopy(data, from, n) ==
  IF n = 0 THEN data
  ELSE SelfCopy(Append(data, data[from + 1]), from + 1, n - 1)

\* the command at the patch cursor, as decode_command reads it
PendingCommand == PatchReadNumber(patch)

PendingOffset == PatchReadNumber(PendingCommand.s)

\* the patch cursor is at a TargetCopy whose start lies in the output
AtTargetCopy ==
  /\ kind = "BPS"
  /\ pc = "bps_apply"
  /\ PendingCommand.err = "none"
  /\ PendingCommand.value % 4 = 3
  /\ PendingOffset.err = "none"
  /\ loc.target_relative_offset + DecodeSigned(PendingOffset.value) >= 0
  /\ loc.target_relative_offset + DecodeSigned(PendingOffset.value) < Len(output.data)

\* C12: a BPS TargetCopy(length, signed_offset) adds signed_offset to
\* target_relative_offset, appends length bytes, the i-th of them the output
\* byte at target_relative_offset + i as the output stands then (so a
\* period shorter than length repeats, period 1 included), and leaves
\* target_relative_offset advanced by length.
C12_TargetCopyAppends ==
  [][AtTargetCopy =>
       (/\ output'.data =
             SelfCopy(output.data,
                      loc.target_relative_offset + DecodeSigned(PendingOffset.value),
                      (PendingCommand.value \div 4) + 1)
        /\ loc'.target_relative_offset =
             loc.target_relative_offset + DecodeSigned(PendingOffset.value)
               + (PendingCommand.value \div 4) + 1)]_vars


\* a complete PPF file with at least one record, every record with at least
\* one byte, the offsets ascending without overlap, read from a source that
\* reaches the end of the last record
PpfWellFormed ==
  /\ kind = "PPF"
  /\ given.cut = 0 /\ given.tamper = "none"
  /\ Len(given.records) >= 1
  /\ \A i \in 1..Len(given.records) : Len(given.records[i].bytes) >= 1
  /\ \A i \in 1..(Len(given.records) - 1) :
       given.records[i].offset + Len(given.records[i].bytes)
         <= given.records[i + 1].offset
  /\ IpsLastEnd(given.records) <= Len(rom.data)

\* C13: a well-formed PPF patch with at least one record, a record at
\* offset 0 included, is applied with success, and the output is the source
\* with the bytes of each record laid over the bytes at its offset; every
\* output byte outside a record is the source byte at the same offset.
C13_PpfOverlay ==
  (PpfWellFormed /\ pc = "done") =>
    (/\ result = "Ok"
     /\ output.data = IpsOverlay(rom.data, given.records, 1))

\* the file is the plain header and one window over a segment of the source
\* whose only instruction is a COPY, in mode 0 with its size in the
\* instruction stream, of as many bytes as the target window has, from an
\* address inside the segment
VcdSourceCopy ==
  /\ kind = "VCD"
  /\ given.header = <<0, 0, 0, 0, 0>> /\ given.cut = 0
  /\ Len(given.windows) = 1
  /\ given.windows[1].ind = VCD_SOURCE
  /\ given.windows[1].spos + given.windows[1].slen <= Len(rom.data)
  /\ given.windows[1].slack = 0 /\ given.windows[1].delta = 0
  /\ Len(given.windows[1].inst) = 2 /\ given.windows[1].inst[1] = 19
  /\ given.windows[1].inst[2] = given.windows[1].tlen
  /\ Len(given.windows[1].addr) = 1
  /\ given.windows[1].addr[1] + given.windows[1].tlen <= given.windows[1].slen

\* C14: a Vcdiff COPY of n bytes from address addr appends exactly n bytes,
\* the i-th being the byte of the superstring (source segment, then target
\* window) at addr + i; here the bytes lie in the source segment, so once
\* the window is processed the output is those n bytes of the source.
C14_VcdCopyAppends ==
  (VcdSourceCopy /\ pc \notin {"start", "vcd_window"}) =>
    (/\ pc \in {"finish", "done"}
     /\ output.data =
          Slice(rom.data,
                given.windows[1].spos + given.windows[1].addr[1],
                given.windows[1].spos + given.windows[1].addr[1]
                  + given.windows[1].tlen))

----------------------------------------------------------------------------
(* Format detection (patch/mod.rs, apply.rs).  The state is the patch      *)
(* file, as bytes and read position, the kind found and the outcome of     *)
(* Args::call up to the choice of the decoder.                             *)

IPS_MAGIC == <<80, 65, 84>>

UPS_MAGIC == <<85, 80, 83>>

BPS_MAGIC == <<66, 80, 83>>

PPF_MAGIC == <<80, 80, 70>>

\* find_patch_kind: read_array::<3> needs three bytes, the file is sought
\* back to its start, and the magic is matched against the five constants
FindPatchKind(data) ==
  LET magic == SubSeq(data, 1, 3)
  IN  IF Len(data) < 3 THEN [err |-> "UnexpectedEof", kind |-> "none", pos |-> Len(data)]
      ELSE IF magic = IPS_MAGIC THEN [err |-> "none", kind |-> "IPS", pos |-> 0]
      ELSE IF magic = UPS_MAGIC THEN [err |-> "none", kind |-> "UPS", pos |-> 0]
      ELSE IF magic = BPS_MAGIC THEN [err |-> "none", kind |-> "BPS", pos |-> 0]
      ELSE IF magic = PPF_MAGIC THEN [err |-> "none", kind |-> "PPF", pos |-> 0]
      ELSE IF magic = VCD_MAGIC THEN [err |-> "none", kind |-> "VCD", pos |-> 0]
      ELSE [err |-> "InvalidData", kind |-> "none", pos |-> 0]

\* Args::call, find_patch_kind(&mut patch)?: an io::Error becomes
\* apply::Error::IO
DetectKind ==
  /\ kind = "detect" /\ pc = "detect"
  /\ patch' = [patch EXCEPT !.raw = FindPatchKind(patch.data).pos]
  /\ loc' = [loc EXCEPT !.patch_kind = FindPatchKind(patch.data).kind]
  /\ IF FindPatchKind(patch.data).err = "none"
       THEN pc' = "route" /\ result' = result
       ELSE pc' = "done" /\ result' = "IO"
  /\ UNCHANGED <<kind, strict, rom, output, report, checksums, given>>

\* Args::call, Patcher::from_patch_kind: the decoder that patcher.patch
\* will run, in strict mode
DetectRoute ==
  /\ kind = "detect" /\ pc = "route"
  /\ kind' = loc.patch_kind
  /\ strict' = TRUE
  /\ pc' = "routed"
  /\ UNCHANGED <<rom, patch, output, loc, result, report, checksums, given>>

\* the bytes of the magics of the formats, and of the Vcdiff magic of
\* RFC 3284
DetectBytes == {80, 65, 84, 85, 83, 66, 70, 0, 214, 195, 196}

InitDetect ==
  \E data \in UNION { [1..n -> DetectBytes] : n \in 0..4 } :
    /\ kind = "detect"
    /\ strict = FALSE
    /\ rom = <<>>
    /\ patch = [data |-> data, raw |-> 0]
    /\ output = <<>>
    /\ pc = "detect"
    /\ loc = [patch_kind |-> "none"]
    /\ result = "none"
    /\ report = <<>>
    /\ checksums = <<>>
    /\ given = <<>>

NextDetect ==
  \/ DetectKind
  \/ DetectRoute

SpecDetect == InitDetect /\ [][NextDetect]_vars

\* what the first three bytes of the file announce
Announced(data) ==
  IF SubSeq(data, 1, 3) = <<80, 65, 84>> THEN "IPS"
  ELSE IF SubSeq(data, 1, 3) = <<85, 80, 83>> THEN "UPS"
  ELSE IF SubSeq(data, 1, 3) = <<66, 80, 83>> THEN "BPS"
  ELSE IF SubSeq(data, 1, 3) = <<80, 80, 70>> THEN "PPF"
  ELSE IF SubSeq(data, 1, 3) = <<214, 195, 196>> THEN "VCD"
  ELSE "none"

\* C15: format detection reads the first three bytes of the patch and
\* routes PAT to the IPS decoder, UPS to UPS, BPS to BPS, PPF to PPF and
\* D6 C3 C4 to the Vcdiff decoder; any other three-byte prefix is reported
\* as BadPatch.
C15_DetectRoutes ==
  (Len(patch.data) >= 3 /\ pc \in {"routed", "done"} /\ "patch_kind" \in DOMAIN loc) =>
    IF Announced(patch.data) = "none"
      THEN pc = "done" /\ result = "BadPatch"
      ELSE pc = "routed" /\ kind = Announced(patch.data)

----------------------------------------------------------------------------
(* Properties of the UPS decoder on a patch without hunks *)

\* C16: a UPS patch with no hunks, the header followed at once by the
\* footer, whose two sizes are the length of the source and whose footer
\* holds the checksums of the source and of the patch, is applied with
\* success in strict mode and the output is the source; it is not taken
\* for a patch that was applied already.
C16_UpsNoHunks ==
  (/\ kind = "UPS" /\ strict
   /\ patch.data = UpsNoHunkFile(rom.data).data
   /\ pc = "done") =>
    (result = "Ok" /\ output.data = rom.data)

----------------------------------------------------------------------------
(* The variable-length integers on their own: read_number (byuu) and       *)
(* read_integer (Vcdiff) applied once to a tracked stream.  given tells    *)
(* the decoder called and how the stream was made: the encoding of value   *)
(* (limbs) followed by other bytes, or any bytes (value is <<>>).          *)

\* the byuu encoder of the UPS and BPS formats on limbs: x = data & 0x7f;
\* data >>= 7; if data = 0 the byte 0x80 | x ends the number; else x is
\* written and data is decremented
RECURSIVE Decrement(_, _)
Decrement(d, pos) ==
  IF d[pos] > 0 THEN [d EXCEPT ![pos] = @ - 1]
  ELSE Decrement([d EXCEPT ![pos] = 127], pos + 1)

RECURSIVE ByuuEncodeLimbs(_)
ByuuEncodeLimbs(d) ==
  LET Rest(rest) ==
        IF rest = ZeroLimbs THEN <<128 + d[1]>>
        ELSE <<d[1]>> \o ByuuEncodeLimbs(Decrement(rest, 1))
  IN  Rest([i \in 1..10 |-> IF i < 10 THEN d[i + 1] ELSE 0])

\* the Vcdiff encoder of RFC 3284 on limbs: the base-128 digits, most
\* significant first, every byte but the last with its top bit set
VcdEncodeLimbs(d) ==
  LET Top(t) == [j \in 1..t |-> d[t - j + 1] + (IF j < t THEN 128 ELSE 0)]
  IN  Top(Max(1, CHOOSE t \in 0..10 :
                   /\ t > 0 => d[t] # 0
                   /\ \A i \in (t + 1)..10 : d[i] = 0))

\* values around the powers of 128 and at the ends of the u32, i64 and u64
\* ranges: digit k is x, the digits below are all low
VarintValues ==
  { d \in { [i \in 1..10 |-> IF i = k THEN x ELSE IF i < k THEN low ELSE 0] :
              k \in 1..10, x \in {0, 1, 15, 16, 127}, low \in {0, 127} } :
      d[10] <= 1 }

\* bytes for streams that are not encodings
VarintBytes == {0, 14, 127, 128, 176, 255}

MaxStream == 4

VarintStreams == UNION { [1..n -> VarintBytes] : n \in 0..MaxStream }

\* runs of one byte, nine to twelve bytes long with their last byte: long
\* enough to leave 64 bits
MinRun == 9

MaxRun == 12

VarintLongStreams ==
  { [i \in 1..n |-> IF i = n THEN last ELSE b] :
      n \in MinRun..MaxRun, b \in {0, 127, 128, 129, 255}, last \in {0, 127, 128, 255} }

InitVarint ==
  \E dialect \in {"byuu", "vcd32", "vcd64"} :
    \E g \in { [dialect |-> dialect, value |-> v, tail |-> t] :
                 v \in VarintValues, t \in {<<>>, <<128, 0>>} }
             \cup { [dialect |-> dialect, value |-> <<>>, tail |-> t] :
                      t \in VarintStreams \cup VarintLongStreams } :
      /\ kind = "varint"
      /\ strict = FALSE
      /\ rom = <<>>
      /\ patch = NewPatch((IF g.value = <<>> THEN <<>>
                           ELSE IF dialect = "byuu" THEN ByuuEncodeLimbs(g.value)
                           ELSE VcdEncodeLimbs(g.value)) \o g.tail)
      /\ output = <<>>
      /\ pc = "varint"
      /\ loc = <<>>
      /\ result = "none"
      /\ report = <<>>
      /\ checksums = <<>>
      /\ given = g

VarintDecoded(r) ==
  /\ patch' = r.s
  /\ loc' = [err |-> r.err, value |-> r.value, limbs |-> r.limbs]
  /\ result' = IF r.err = "none" THEN "Ok" ELSE "Err"
  /\ pc' = "decoded"
  /\ UNCHANGED <<kind, strict, rom, output, report, checksums, given>>

\* one call of read_number
VarintReadNumber ==
  /\ kind = "varint" /\ pc = "varint" /\ given.dialect = "byuu"
  /\ VarintDecoded(PatchReadNumber(patch))

\* one call of read_integer::<u32>
VarintReadU32 ==
  /\ kind = "varint" /\ pc = "varint" /\ given.dialect = "vcd32"
  /\ VarintDecoded(PatchReadInteger(patch, Len(patch.data), 32))

\* one call of read_integer::<u64>
VarintReadU64 ==
  /\ kind = "varint" /\ pc = "varint" /\ given.dialect = "vcd64"
  /\ VarintDecoded(PatchReadInteger(patch, Len(patch.data), 64))

NextVarint ==
  \/ VarintReadNumber
  \/ VarintReadU32
  \/ VarintReadU64

SpecVarint == InitVarint /\ [][NextVarint]_vars

\* 2^63 - 1, 2^63, 2^32 - 1 and 2^32 as limbs
MaxI64 == [i \in 1..10 |-> IF i <= 9 THEN 127 ELSE 0]

MaxI64Next == [i \in 1..10 |-> IF i = 10 THEN 1 ELSE 0]

MaxU32 == [i \in 1..10 |-> IF i <= 4 THEN 127 ELSE IF i = 5 THEN 15 ELSE 0]

MaxU32Next == [i \in 1..10 |-> IF i = 5 THEN 16 ELSE 0]

\* d is below 2^63, below 2^32
BelowI64Next(d) == d[10] = 0

BelowU32Next(d) == d[5] <= 15 /\ \A i \in 6..10 : d[i] = 0

\* a value was encoded, with nothing or other bytes after it, and decoded
RoundTrip(dialect) ==
  /\ kind = "varint" /\ pc = "decoded"
  /\ given.dialect = dialect /\ given.value # <<>>

\* C17: decoding the encoding of a value gives the value back for every
\* value below 2^63 in the byuu dialect and below 2^32 in the Vcdiff
\* dialect, 2^63 - 1 and 2^32 - 1 included, and the decoder rejects the
\* encoding of 2^63, respectively of 2^32.
C17_VarintRoundTrip ==
  /\ (RoundTrip("byuu") /\ BelowI64Next(given.value)) =>
       (loc.err = "none" /\ loc.limbs = given.value)
  /\ (RoundTrip("byuu") /\ given.value = MaxI64Next) => loc.err # "none"
  /\ (RoundTrip("vcd32") /\ BelowU32Next(given.value)) =>
       (loc.err = "none" /\ loc.limbs = given.value)
  /\ (RoundTrip("vcd32") /\ given.value = MaxU32Next) => loc.err # "none"

\* index of the first byte of s with its top bit set, 0 if there is none
RECURSIVE FirstMsb(_, _)
FirstMsb(s, i) ==
  IF i > Len(s) THEN 0 ELSE IF s[i] >= 128 THEN i ELSE FirstMsb(s, i + 1)

\* 128^1 + ... + 128^k added to d
RECURSIVE AddPowers(_, _, _)
AddPowers(sum, i, k) ==
  IF i > k \/ ~sum.ok THEN sum ELSE AddPowers(CheckedAddAt(sum.d, i + 1, 1), i + 1, k)

\* the sum over i in 0..k of (b_i & 0x7F) * 128^i, plus the sum of 128^i
\* for i in 1..k, where b_i is s[i + 1]; k is at most 9
ByuuSum(s, k) ==
  AddPowers([ok |-> TRUE, d |-> [j \in 1..10 |-> IF j <= k + 1 THEN s[j] % 128 ELSE 0]],
            1, k)

\* read_number was called on a stream whose first byte with the top bit
\* set is the n-th, and the sum of the claim fits u64
ByuuDecoded(n) ==
  /\ kind = "varint" /\ pc = "decoded" /\ given.dialect = "byuu"
  /\ n = FirstMsb(patch.data, 1)
  /\ n \in 1..10
  /\ ByuuSum(patch.data, n - 1).ok /\ ByuuSum(patch.data, n - 1).d[10] <= 1

\* C18: on bytes b0, ..., bk, bk the first with its top bit set, the byuu
\* decoder returns the sum of (bi & 0x7F) * 128^i over i in 0..k plus the
\* sum of 128^i over i in 1..k, consumes those k + 1 bytes and leaves the
\* bytes after them unread.
C18_ByuuDecode ==
  \A n \in 1..10 :
    ByuuDecoded(n) =>
      (/\ loc.err = "none"
       /\ loc.limbs = ByuuSum(patch.data, n - 1).d
       /\ patch.raw = n /\ patch.tpos = n
       /\ patch.hashed = SubSeq(patch.data, 1, n))

\* 0E B0 80 00 decodes to 6286 = 14 + 49 * 128 and the reader stands after
\* two bytes
C18_Witness ==
  /\ kind = "varint" /\ pc = "decoded" /\ given.dialect = "byuu"
  /\ patch.data = <<14, 176, 128, 0>>
  /\ loc.err = "none"
  /\ loc.limbs = [j \in 1..10 |-> IF j = 1 THEN 14 ELSE IF j = 2 THEN 49 ELSE 0]
  /\ loc.value = 6286
  /\ patch.raw = 2

----------------------------------------------------------------------------
(* RepeatSlice (read-write-utils/src/repeat.rs) on its own.  given is the  *)
(* slice; loc holds the position of the cursor over it, the caller's       *)
(* buffer, the position at the start of the current read, the number of    *)
(* reads that returned and the count the last of them returned.  pc is "new" before RepeatSlice::new, "idle"    *)
(* between reads, "read" inside the loop of read, "panic" after a failed   *)
(* assertion.                                                              *)

MaxSlice == 3

MaxBuf == 2

MaxReads == 3

RepeatSlices == UNION { [1..n -> {1, 2, 3}] : n \in 0..MaxSlice }

InitRepeat ==
  \E slice \in RepeatSlices :
    /\ kind = "repeat"
    /\ strict = FALSE
    /\ rom = <<>>
    /\ patch = <<>>
    /\ output = <<>>
    /\ pc = "new"
    /\ loc = [position |-> 0, buf |-> <<>>, start |-> 0, reads |-> 0, count |-> 0]
    /\ result = "none"
    /\ report = <<>>
    /\ checksums = <<>>
    /\ given = slice

\* RepeatSlice::new: assert!(slice.len() > 1)
RepeatNew ==
  /\ kind = "repeat" /\ pc = "new"
  /\ pc' = IF Len(given) > 1 THEN "idle" ELSE "panic"
  /\ UNCHANGED <<kind, strict, rom, patch, output, loc, result, report, checksums, given>>

\* RepeatSlice::read is called with a buffer of n bytes: a slice of one
\* byte is answered by io::repeat, any other enters the loop
RepeatRead ==
  /\ kind = "repeat" /\ pc = "idle" /\ loc.reads < MaxReads
  /\ \E n \in 0..MaxBuf :
       IF Len(given) = 1
         THEN /\ loc' = [loc EXCEPT !.buf = [j \in 1..n |-> given[1]],
                                    !.start = loc.position, !.reads = @ + 1,
                                    !.count = n]
              /\ pc' = "idle"
         ELSE /\ loc' = [loc EXCEPT !.buf = Zeros(n), !.start = loc.position]
              /\ pc' = "read"
  /\ UNCHANGED <<kind, strict, rom, patch, output, result, report, checksums, given>>

\* Cursor::read into buf: as many bytes as the slice has left and buf takes,
\* written from the start of buf
CursorRead(slice, position, buf) ==
  LET Read(k) ==
        [buf |-> [j \in 1..Len(buf) |-> IF j <= k THEN slice[position + j] ELSE buf[j]],
         position |-> position + k]
  IN  Read(Min(Len(slice) - position, Len(buf)))

\* one pass of the loop of RepeatSlice::read: the cursor reads into the
\* whole of buf, goes back to 0 at the end of the slice, and the function
\* returns if buf is empty
RepeatLoop ==
  /\ kind = "repeat" /\ pc = "read"
  /\ loc' = [loc EXCEPT
               !.buf = CursorRead(given, loc.position, loc.buf).buf,
               !.position =
                 IF CursorRead(given, loc.position, loc.buf).position = Len(given)
                   THEN 0
                   ELSE CursorRead(given, loc.position, loc.buf).position,
               !.reads = IF loc.buf = <<>> THEN @ + 1 ELSE @,
               !.count = IF loc.buf = <<>> THEN Len(loc.buf) ELSE @]
  /\ pc' = IF loc.buf = <<>> THEN "idle" ELSE "read"
  /\ UNCHANGED <<kind, strict, rom, patch, output, result, report, checksums, given>>

NextRepeat ==
  \/ RepeatNew
  \/ RepeatRead
  \/ RepeatLoop

SpecRepeat == InitRepeat /\ [][NextRepeat]_vars

\* the loop of read is sequential code: a pass that can run does run
FairSpecRepeat == SpecRepeat /\ WF_vars(RepeatLoop)

\* the bytes s[i mod len(s)] for the n values of i from start on
Repeated(s, start, n) == [j \in 1..n |-> s[((start + j - 1) % Len(s)) + 1]]

\* C19: every read of a RepeatSlice over s returns with its buffer filled
\* completely with the bytes s[i mod len(s)], for a counter i that goes on
\* from read to read and wraps around the end of the slice.
C19_ReadFillsBuffer ==
  (kind = "repeat" /\ pc = "read") ~>
    (/\ pc = "idle"
     /\ loc.buf = Repeated(given, loc.start, Len(loc.buf))
     /\ loc.position = (loc.start + Len(loc.buf)) % Len(given))

\* C20: a RepeatSlice can be made of every slice that is not empty, one of
\* a single byte included, whose reads fill the buffer with that byte; the
\* empty slice alone is rejected.
C20_NonEmptySliceAccepted ==
  (kind = "repeat" /\ pc # "new") =>
    /\ (pc = "panic") <=> (Len(given) = 0)
    /\ (Len(given) = 1 /\ loc.reads > 0) => loc.buf = Repeated(given, 0, Len(loc.buf))

----------------------------------------------------------------------------
(* The apply command (apply.rs, Args::call) as far as its temporary file   *)
(* goes.  given is the bytes of the patch file; loc.temp is "none" before  *)
(* the temporary file exists, "exists" while it has its temporary name,    *)
(* "removed" after fs::remove_file and "renamed" after fs::rename; pc is   *)
(* the statement Args::call is at.  What the file system, the decoder and  *)
(* the manifest answer is chosen freely at each step.                      *)

\* Args::call returns Err(e) from where it stands: the ? operator
ApplyReturn(e) ==
  /\ pc' = "done"
  /\ result' = e
  /\ UNCHANGED <<kind, strict, rom, patch, output, loc, report, checksums, given>>

ApplyGoto(next) ==
  /\ pc' = next
  /\ UNCHANGED <<kind, strict, rom, patch, output, loc, result, report, checksums, given>>

\* fs::File::open of the rom and of the patch, then OpenOptions with
\* create_new for the file named by a fresh Ulid
ApplyOpen ==
  /\ kind = "apply" /\ pc = "open"
  /\ \E opened \in {"rom fails", "patch fails", "temp fails", "ok"} :
       IF opened = "ok"
         THEN /\ pc' = "detect"
              /\ loc' = [loc EXCEPT !.temp = "exists"]
              /\ UNCHANGED <<kind, strict, rom, patch, output, result, report,
                             checksums, given>>
         ELSE ApplyReturn("IO")

\* find_patch_kind(&mut patch)? and Patcher::from_patch_kind
ApplyDetect ==
  /\ kind = "apply" /\ pc = "detect"
  /\ IF FindPatchKind(given).err = "none"
       THEN /\ pc' = "patch"
            /\ loc' = [loc EXCEPT !.patch_kind = FindPatchKind(given).kind]
            /\ UNCHANGED <<kind, strict, rom, patch, output, result, report,
                           checksums, given>>
       ELSE ApplyReturn("IO")

\* patcher.patch(.., true): on Err the temporary file is dropped and
\* removed and the error returned
ApplyPatch ==
  /\ kind = "apply" /\ pc = "patch"
  /\ \E patched \in BOOLEAN :
       IF patched THEN ApplyGoto("manifest")
       ELSE /\ pc' = "done"
            /\ result' = "Patching"
            /\ loc' = [loc EXCEPT !.temp = "removed"]
            /\ UNCHANGED <<kind, strict, rom, patch, output, report, checksums, given>>

\* manifest::get_or_create(..)?
ApplyManifest ==
  /\ kind = "apply" /\ pc = "manifest"
  /\ \E found \in {"Ok", "IO", "Kdl", "AlreadyPatched", "ManifestOutdated"} :
       IF found = "Ok" THEN ApplyGoto("write") ELSE ApplyReturn("Manifest")

\* manifest::update and fs::write(&manifest_path, ..)?
ApplyWrite ==
  /\ kind = "apply" /\ pc = "write"
  /\ \E written \in BOOLEAN :
       IF written THEN ApplyGoto("flush") ELSE ApplyReturn("IO")

\* temp_file.flush()?
ApplyFlush ==
  /\ kind = "apply" /\ pc = "flush"
  /\ \E flushed \in BOOLEAN :
       IF flushed THEN ApplyGoto("rename") ELSE ApplyReturn("IO")

\* fs::rename(&temp_file_name, &patched_file_name)?, then Ok(())
ApplyRename ==
  /\ kind = "apply" /\ pc = "rename"
  /\ \E renamed \in BOOLEAN :
       IF renamed
         THEN /\ pc' = "done"
              /\ result' = "Ok"
              /\ loc' = [loc EXCEPT !.temp = "renamed"]
              /\ UNCHANGED <<kind, strict, rom, patch, output, report, checksums, given>>
         ELSE ApplyReturn("IO")

InitApply ==
  \E data \in UNION { [1..n -> DetectBytes] : n \in 0..3 } :
    /\ kind = "apply"
    /\ strict = TRUE
    /\ rom = <<>>
    /\ patch = <<>>
    /\ output = <<>>
    /\ pc = "open"
    /\ loc = [temp |-> "none", patch_kind |-> "none"]
    /\ result = "none"
    /\ report = <<>>
    /\ checksums = <<>>
    /\ given = data

NextApply ==
  \/ ApplyOpen
  \/ ApplyDetect
  \/ ApplyPatch
  \/ ApplyManifest
  \/ ApplyWrite
  \/ ApplyFlush
  \/ ApplyRename

SpecApply == InitApply /\ [][NextApply]_vars

\* C21: when the apply command returns, its temporary output file has been
\* renamed to the final name if the command succeeded and removed if it
\* failed at any step; no failing execution leaves the temporary file
\* behind.
C21_TempFileSettled ==
  (kind = "apply" /\ pc = "done") =>
    /\ result = "Ok" => loc.temp = "renamed"
    /\ result # "Ok" => loc.temp \in {"none", "removed"}

----------------------------------------------------------------------------
(* Termination of the decoders *)

\* C22: every decoder terminates on every finite patch and source: every
\* pass of a record, hunk, instruction or window loop consumes patch bytes
\* or ends the loop, and every bounded copy inside a pass (RLE fill, BPS
\* TargetCopy, Vcdiff RUN, ADD and COPY) completes; no decoder is ever
\* inside a copy that does not return.
C22_DecodersTerminate == pc # "hang"

----------------------------------------------------------------------------
(* Properties of the PPF block check *)

\* the source holds the whole block check region of the patch, and its
\* bytes there are not the block stored in the patch (1024 zeros)
PpfBlockDiffers ==
  /\ kind = "PPF" /\ strict /\ given.block
  /\ given.tamper = "none" /\ given.cut = 0 /\ given.records # <<>>
  /\ Len(rom.data) >= BlockCheckOffset(0) + BLOCK_CHECK_LENGTH
  /\ Slice(rom.data, BlockCheckOffset(0), BlockCheckOffset(0) + BLOCK_CHECK_LENGTH)
       # Zeros(BLOCK_CHECK_LENGTH)

\* C23: in strict mode, for a PPF patch with a block check, patching fails
\* with WrongInputFile whenever the 1024 source bytes at the block check
\* offset differ from the block stored in the patch, wherever the records
\* of the patch lie: before the region, inside it, across it, or short of
\* its end.
C23_BlockCheckRejects ==
  (PpfBlockDiffers /\ pc = "done") => result = "WrongInputFile"

----------------------------------------------------------------------------
(* Properties of the Vcdiff decoder on invalid windows *)

\* the only window of w's file is structurally invalid: an ADD of more
\* bytes than the target window has, an ADD whose size is missing from the
\* instruction stream, or a COPY from an address at or past the written
\* end of the superstring
VcdInvalidWindow(w) ==
  /\ w.ind \in {0, VCD_SOURCE} /\ w.delta = 0 /\ w.slack = 0
  /\ Len(w.inst) >= 1
  /\ \/ w.inst[1] \in 2..18 /\ w.inst[1] - 1 > w.tlen
     \/ w.inst = <<1>>
     \/ w.inst[1] \in 20..34 /\ Len(w.addr) = 1 /\ w.addr[1] >= w.slen

VcdInvalidFile ==
  /\ kind = "VCD"
  /\ given.header = <<0, 0, 0, 0, 0>> /\ given.cut = 0
  /\ Len(given.windows) = 1
  /\ given.windows[1].ind = VCD_SOURCE =>
       given.windows[1].spos + given.windows[1].slen <= Len(rom.data)
  /\ VcdInvalidWindow(given.windows[1])

----------------------------------------------------------------------------
(* Properties of the end of an IPS patch *)

\* C25: an IPS patch without records fails with BadPatch, whether or not a
\* truncated size follows the EOF marker.
C25_NoRecordsRejected ==
  (/\ kind = "IPS" /\ given.records = <<>>
   /\ given.cut = 0 /\ given.extra = 0
   /\ pc = "done") => result = "BadPatch"

\* the bytes of the patch that follow the position of the decoder
IpsTrailing == Len(patch.data) - patch.raw

\* C26: after the EOF marker the patch holds either no further bytes or
\* exactly three; with any other number of bytes after the marker the
\* decoder fails with BadPatch.
C26_TrailerLength ==
  [][(kind = "IPS" /\ pc = "ips_trailer" /\ IpsTrailing \notin {0, 3}) =>
       (pc' = "done" /\ result' = "BadPatch")]_vars

\* a record at offset 0 of an eight-byte source, the truncated size 4 and
\* one more byte: rejected
C26_Witness ==
  /\ kind = "IPS" /\ pc = "done" /\ result = "BadPatch"
  /\ rom.data = <<17, 34, 51, 68, 85, 102, 119, 136>>
  /\ given.records = <<IpsRec(0, FALSE, <<170, 187>>)>>
  /\ given.trailer = 4 /\ given.cut = 0 /\ given.extra = 1

----------------------------------------------------------------------------
(* Properties of the UPS hunks *)

\* the patch bytes after the relative offset at the patch cursor
UpsAfterOffset == Slice(patch.data, PendingCommand.s.raw, Len(patch.data))

\* the XOR bytes of the hunk at the patch cursor: the bytes before the
\* first 0x00
UpsXorBytes ==
  LET rest == UpsAfterOffset
      k == CHOOSE j \in 1..Len(rest) :
             rest[j] = 0 /\ \A h \in 1..(j - 1) : rest[h] # 0
  IN  SubSeq(rest, 1, k - 1)

\* how far the cursor moves before the hunk at the patch cursor
UpsAdvance ==
  PendingCommand.value + (IF loc.is_subsequent_iteration THEN 1 ELSE 0)

\* the source byte at offset i, 0x00 past the end of the source
SourceByte(i) == IF i < Len(rom.data) THEN rom.data[i + 1] ELSE 0

\* the decoder is about to apply a hunk: the relative offset decodes, the
\* source reaches the start of the hunk, and the hunk has its 0x00
UpsHunkPending ==
  /\ kind = "UPS" /\ pc = "ups_apply"
  /\ PendingCommand.err = "none"
  /\ Len(output.data) + UpsAdvance <= Len(rom.data)
  /\ \E j \in 1..Len(UpsAfterOffset) : UpsAfterOffset[j] = 0

----------------------------------------------------------------------------
(* Properties of the BPS source commands *)

\* the length of the command at the patch cursor
PendingLength == (PendingCommand.value \div 4) + 1

\* the patch cursor is at a SourceRead that ends past source_size
AtSourceReadPastEnd ==
  /\ kind = "BPS" /\ pc = "bps_apply"
  /\ PendingCommand.err = "none"
  /\ PendingCommand.value % 4 = 0
  /\ Len(output.data) + PendingLength > loc.expected_source_size

\* the patch cursor is at a SourceCopy whose range, after the signed offset
\* is added, is not inside the source
AtSourceCopyOutside ==
  /\ kind = "BPS" /\ pc = "bps_apply"
  /\ PendingCommand.err = "none"
  /\ PendingCommand.value % 4 = 2
  /\ PendingOffset.err = "none"
  /\ LET sro == loc.source_relative_offset + DecodeSigned(PendingOffset.value)
     IN  sro < 0 \/ sro + PendingLength > loc.expected_source_size

\* C28: a SourceRead with output_position + length > source_size fails
\* with BadPatch, and so does a SourceCopy of which any part of
\* [source_relative_offset, source_relative_offset + length) lies outside
\* the source, the case where only the end lies outside included.
C28_SourceBounds ==
  [][(AtSourceReadPastEnd \/ AtSourceCopyOutside) =>
       (pc' = "bps_footer" /\ loc'.patch_result = "BadPatch")]_vars

----------------------------------------------------------------------------
(* The Vcdiff code table: decode_instruction_pair on every instruction     *)
(* byte                                                                    *)

InitTable ==
  \E index \in 0..255 :
    /\ kind = "table"
    /\ strict = FALSE
    /\ rom = <<>>
    /\ patch = NewPatch(<<index>>)
    /\ output = <<>>
    /\ pc = "table"
    /\ loc = <<>>
    /\ result = "none"
    /\ report = <<>>
    /\ checksums = <<>>
    /\ given = index

\* one instruction byte is read and decoded
TableDecode ==
  /\ kind = "table" /\ pc = "table"
  /\ LET Decoded1(b) ==
           /\ patch' = b.s
           /\ loc' = DecodeInstructionPair(b.bytes[1])
     IN  Decoded1(PatchReadExact(patch, 1))
  /\ pc' = "done"
  /\ UNCHANGED <<kind, strict, rom, output, result, report, checksums, given>>

NextTable == TableDecode

SpecTable == InitTable /\ [][NextTable]_vars

\* the entry of the default code table of RFC 3284 for an instruction byte
DefaultCodeTable(i) ==
  LET Noop == Instruction("Noop", 0, 0)
  IN  CASE i = 0 -> <<Instruction("Run", 0, 0), Noop>>
        [] i \in 1..18 -> <<Instruction("Add", i - 1, 0), Noop>>
        [] i \in 19..162 ->
             <<Instruction("Copy",
                           IF (i - 19) % 16 = 0 THEN 0 ELSE 3 + ((i - 19) % 16),
                           (i - 19) \div 16),
               Noop>>
        [] i \in 163..234 ->
             <<Instruction("Add", 1 + (((i - 163) \div 3) % 4), 0),
               Instruction("Copy", 4 + ((i - 163) % 3), (i - 163) \div 12)>>
        [] i \in 235..246 ->
             <<Instruction("Add", 1 + ((i - 235) % 4), 0),
               Instruction("Copy", 4, 6 + ((i - 235) \div 4))>>
        [] i \in 247..255 ->
             <<Instruction("Copy", 4, i - 247), Instruction("Add", 1, 0)>>

\* C30: for every instruction byte 0..255, decoding yields the pair of the
\* default code table of RFC 3284.
C30_DefaultCodeTable ==
  (kind = "table" /\ pc = "done") => loc = DefaultCodeTable(given)

----------------------------------------------------------------------------
(* The Vcdiff address cache: the address part of COPY instructions, with   *)
(* ADD instructions of one byte in between, on the cursors of one window   *)

MaxAddrLen == 3

AddrBytes == {0, 1, 5, 130}

AddrSections == UNION { [1..n -> AddrBytes] : n \in 0..MaxAddrLen }

\* the length of the target window of the harness
AddrTargetLen == 2

InitAddress ==
  \E source_len \in {0, 2}, section \in AddrSections :
    /\ kind = "address"
    /\ strict = FALSE
    /\ rom = <<>>
    /\ patch = <<>>
    /\ output = <<>>
    /\ pc = "address"
    /\ loc = [w |-> Cursors([superstring |-> Zeros(source_len + AddrTargetLen),
                             add_and_run_data |-> <<170, 187>>,
                             instructions_and_sizes |-> <<>>,
                             copy_addresses |-> section],
                            source_len),
              mode |-> 0, err |-> "none", address |-> 0, copies |-> 0]
    /\ result = "none"
    /\ report = <<>>
    /\ checksums = <<>>
    /\ given = [source_len |-> source_len, section |-> section]

\* Instruction::Copy up to the decoded address: here is
\* target_window_position()
AddressCopy ==
  /\ kind = "address" /\ pc = "address"
  /\ \E mode \in 0..8 :
       LET Decoded2(a) ==
             /\ loc' = [w |-> a.w, mode |-> mode, err |-> a.err,
                        address |-> a.address, copies |-> loc.copies + 1]
             /\ pc' = IF a.err = "none" THEN "address" ELSE "done"
       IN  Decoded2(AddressDecode(loc.w, loc.w.pos - loc.w.source_len, mode))
  /\ UNCHANGED <<kind, strict, rom, patch, output, result, report, checksums, given>>

\* Instruction::Add of one byte
AddressAdd ==
  /\ kind = "address" /\ pc = "address"
  /\ CanWrite(loc.w, 1)
  /\ loc.w.dpos < Len(loc.w.data)
  /\ loc' = [loc EXCEPT !.w = ExecuteAdd(loc.w, 1)]
  /\ UNCHANGED <<kind, strict, rom, patch, output, pc, result, report, checksums, given>>

NextAddress ==
  \/ AddressCopy
  \/ AddressAdd

SpecAddress == InitAddress /\ [][NextAddress]_vars

\* the value that the address section holds at its cursor
AddressValue == CursorInteger(loc.w.addr, loc.w.apos)

\* RFC 3284: here is the current position in the superstring, the length
\* of the source window plus the target bytes written so far
RfcHere == loc.w.pos

\* the address section holds what mode needs, and here - value exists
RfcResolvable(mode) ==
  IF mode <= 5
    THEN AddressValue.err = "none" /\ (mode = 1 => AddressValue.value <= RfcHere)
    ELSE loc.w.apos < Len(loc.w.addr)

\* the address that RFC 3284 resolves for mode, with the caches as they are
RfcAddress(mode) ==
  IF mode = 0 THEN AddressValue.value
  ELSE IF mode = 1 THEN RfcHere - AddressValue.value
  ELSE IF mode <= 5 THEN loc.w.near[(mode - 2) + 1] + AddressValue.value
  ELSE loc.w.same[(mode - 6) * 256 + loc.w.addr[loc.w.apos + 1]]

\* both caches are all zeros
CachesZero ==
  /\ \A i \in 1..NEAR_SIZE : loc.w.near[i] = 0
  /\ \A i \in 0..(SAME_SIZE - 1) : loc.w.same[i] = 0
  /\ loc.w.next_slot = 0

\* C31: across any sequence of COPY instructions of a window, mode 0 yields
\* the encoded value, mode 1 yields here - value with here the source
\* window length plus the target bytes written so far, modes 2..5 yield
\* near[mode - 2] + value, modes 6..8 yield same[(mode - 6) * 256 + b];
\* every resolved address goes into the next near slot, round-robin over
\* four slots, and into same[address mod 768]; the caches start at zero.
C31_AddressResolution ==
  /\ []((kind = "address" /\ loc.copies = 0) => CachesZero)
  /\ [][(kind = "address" /\ pc = "address" /\ loc'.copies = loc.copies + 1
           /\ RfcResolvable(loc'.mode)) =>
          /\ loc'.err = "none"
          /\ loc'.address = RfcAddress(loc'.mode)
          /\ loc'.w.near = [loc.w.near EXCEPT ![loc.w.next_slot + 1] = loc'.address]
          /\ loc'.w.next_slot = (loc.w.next_slot + 1) % 4
          /\ loc'.w.same = [loc.w.same EXCEPT ![loc'.address % 768] = loc'.address]]_vars

----------------------------------------------------------------------------
(* Overflow of the variable-length integers *)

\* a decoder of the dialect was called on the stream
VarintCalled(dialect) ==
  kind = "varint" /\ pc = "decoded" /\ given.dialect = dialect

\* the byuu number that starts the stream ends at its n-th byte and fits
\* 64 bits, every partial sum included
ByuuFits(n) ==
  /\ n \in 1..10
  /\ ByuuSum(patch.data, n - 1).ok
  /\ ByuuSum(patch.data, n - 1).d[10] <= 1

\* index of the first byte of s without its top bit, 0 if there is none
RECURSIVE FirstClear(_, _)
FirstClear(s, i) ==
  IF i > Len(s) THEN 0 ELSE IF s[i] < 128 THEN i ELSE FirstClear(s, i + 1)

\* the base-128 digits of the Vcdiff number that ends at byte n of s, least
\* significant first
VcdDigits(s, n) == [j \in 1..n |-> s[n - j + 1] % 128]

\* the number of digits of d up to the last one that is not zero
Significant(d) ==
  IF \A j \in 1..Len(d) : d[j] = 0 THEN 0
  ELSE CHOOSE m \in 1..Len(d) : d[m] # 0 /\ \A j \in (m + 1)..Len(d) : d[j] = 0

\* the Vcdiff number that ends at byte n of the stream is below 2^width
VcdFits(n, width) ==
  LET d == VcdDigits(patch.data, n)
      m == Significant(d)
  IN  IF width = 32 THEN m <= 4 \/ (m = 5 /\ d[5] <= 15)
      ELSE m <= 9 \/ (m = 10 /\ d[10] <= 1)

\* the digits of the Vcdiff number as ten limbs
VcdLimbs(n) ==
  [j \in 1..10 |-> IF j <= n THEN VcdDigits(patch.data, n)[j] ELSE 0]

\* read_integer of the width on the stream: a value it returns is the
\* number in full, a number that does not fit is InvalidData, which
\* map_patch_err turns into BadPatch, and a stream without a last byte is
\* an error
VcdChecked(dialect, width) ==
  VarintCalled(dialect) =>
    LET n == FirstClear(patch.data, 1)
    IN  /\ loc.err = "none" =>
             (n > 0 /\ VcdFits(n, width) /\ loc.limbs = VcdLimbs(n))
        /\ (n > 0 /\ ~VcdFits(n, width)) =>
             (loc.err = "InvalidData" /\ MapPatchErr(loc.err) = "BadPatch")
        /\ n = 0 => loc.err \in {"InvalidData", "UnexpectedEof"}

\* C32: both varint decoders fail, with the error that becomes BadPatch,
\* whenever the encoded value or a partial product or sum does not fit the
\* result width (64 bits for byuu, 32 or 64 bits for Vcdiff), long runs of
\* continuation bytes included; a value they return is never wrapped or
\* truncated.
C32_VarintOverflow ==
  /\ VarintCalled("byuu") =>
       LET n == FirstMsb(patch.data, 1)
       IN  /\ loc.err = "none" =>
                (ByuuFits(n) /\ loc.limbs = ByuuSum(patch.data, n - 1).d)
           /\ (n \in 1..10 /\ ~ByuuFits(n)) => loc.err = "overflow"
           /\ ((n = 0 \/ n > 10) /\ Len(patch.data) >= 10) => loc.err = "overflow"
  /\ VcdChecked("vcd32", 32)
  /\ VcdChecked("vcd64", 64)

\* ten bytes 0x7F and the last byte 0xFF leave 64 bits in the byuu
\* dialect, and the decoder reports the overflow
C32_Witness ==
  /\ VarintCalled("byuu")
  /\ patch.data = [i \in 1..11 |-> IF i = 11 THEN 255 ELSE 127]
  /\ loc.err = "overflow"

----------------------------------------------------------------------------
(* Properties of the PPF file-ID footer *)

\* a PPF 2.0 or 3.0 file with an intact header is being applied
PpfWithFooterArea ==
  /\ kind = "PPF"
  /\ given.version \in {2, 3}
  /\ given.tamper \in {"none", "begin", "body"}

\* the size of the body-length field and of a record offset
PpfBodyLenSize == IF given.version = 2 THEN 4 ELSE 2

PpfOffsetSize == IF given.version = 3 THEN 8 ELSE 4

\* the bytes after the header
PpfRegionLen == Len(patch.data) - Len(PpfHeader(given))

\* the file ends with the END magic followed by the body-length field
PpfEndsWithEnd ==
  /\ PpfRegionLen >= Len(END_MAGIC) + PpfBodyLenSize
  /\ SubSeq(patch.data, Len(patch.data) - PpfBodyLenSize - Len(END_MAGIC) + 1,
            Len(patch.data) - PpfBodyLenSize) = END_MAGIC

PpfBodyLen ==
  FromLeBytes(SubSeq(patch.data, Len(patch.data) - PpfBodyLenSize + 1, Len(patch.data)), 1)

PpfFooterLen == Len(BEGIN_MAGIC) + PpfBodyLen + Len(END_MAGIC) + PpfBodyLenSize

\* where the BEGIN magic of the footer stands, by the body length
PpfFooterPos == Len(patch.data) - PpfFooterLen

PpfValidFooter ==
  /\ PpfEndsWithEnd
  /\ PpfBodyLen <= 3072
  /\ PpfFooterLen <= PpfRegionLen
  /\ SubSeq(patch.data, PpfFooterPos + 1, PpfFooterPos + Len(BEGIN_MAGIC)) = BEGIN_MAGIC

\* C33: the footer of a PPF 2.0 or 3.0 file is recognised from the end of
\* the file.  Without the END magic and the body length at the end there
\* is no footer, and a patch that is applied has had every byte after the
\* header consumed as record data; with them, a body length above 3072, a
\* footer longer than the region after the header or a missing BEGIN magic
\* is BadPatch (unless the ROM was already too small for a record); and
\* with a valid footer nothing past the offset-sized start of its BEGIN
\* magic is read.
C33_FooterFromEnd ==
  (PpfWithFooterArea /\ pc = "done") =>
    /\ (~PpfEndsWithEnd /\ result = "Ok") => patch.tpos >= Len(patch.data)
    /\ (PpfEndsWithEnd /\ ~PpfValidFooter /\ result # "InputFileTooSmall") =>
         result = "BadPatch"
    /\ (PpfValidFooter /\ result = "Ok") => patch.tpos <= PpfFooterPos + PpfOffsetSize

----------------------------------------------------------------------------
(* xor_slices (rompatcher/src/patch/ups.rs) on its own, with the worker    *)
(* pool of rayon.  given is the patch bytes, the source bytes copied into  *)
(* the output buffer and the number of workers.  loc.rom_bytes is the      *)
(* buffer being XORed in place; loc.worker[w] is the shard worker w holds, *)
(* 0 when it holds none; loc.lanes[k] is the number of lanes of shard k    *)
(* that are done; loc.taken is the set of shards handed to a worker;       *)
(* loc.finished lists the shards in the order they were finished and       *)
(* loc.touched is the range of bytes the last lane read and wrote.  pc is  *)
(* "fork" inside for_each, "joined" after it returned and "written" after  *)
(* output.write_all.                                                       *)

CACHELINE_ALIGN == 128

SIMD_SIZE == 16

MaxWorkers == 3

\* the whole pieces only: a shorter last piece is left out
ChunksWhole(len, size) ==
  [k \in 1..(len \div size) |-> [first |-> (k - 1) * size + 1, last |-> k * size]]

\* slice::chunks and par_chunks: the ranges of a slice of len bytes cut in
\* pieces of size bytes, the last piece shorter if len is no multiple
Chunks(len, size) ==
  [k \in 1..((len + size - 1) \div size) |->
     [first |-> (k - 1) * size + 1, last |-> Min(k * size, len)]]

\* to_simd: the chunk at the start of a buffer of SIMD_SIZE zeros
ToSimd(chunk) == [i \in 1..SIMD_SIZE |-> IF i <= Len(chunk) THEN chunk[i] ELSE 0]

\* xor_simd: the XOR of the two vectors, cut to the length of the output
\* chunk
XorSimd(patch_chunk, output_chunk) ==
  SubSeq([i \in 1..SIMD_SIZE |-> BitXor(ToSimd(patch_chunk)[i], ToSimd(output_chunk)[i])],
         1, Len(output_chunk))

XorPattern(n, a, b) == [i \in 1..n |-> (a * i + b) % 256]

XorLengths ==
  {0, 2, SIMD_SIZE + 1, CACHELINE_ALIGN, CACHELINE_ALIGN + 2, 2 * CACHELINE_ALIGN + 1}

InitXor ==
  \E n \in XorLengths, workers \in 1..MaxWorkers :
    /\ kind = "xor"
    /\ strict = FALSE
    /\ rom = <<>>
    /\ patch = <<>>
    /\ output = <<>>
    /\ pc = "fork"
    /\ given = [patch_bytes |-> IF n = 2 THEN <<235, 23>> ELSE XorPattern(n, 7, 3),
                rom_bytes |-> IF n = 2 THEN <<56, 171>> ELSE XorPattern(n, 13, 1),
                workers |-> workers]
    /\ loc = [rom_bytes |-> given.rom_bytes,
              worker |-> [w \in 1..workers |-> 0],
              lanes |-> [k \in 1..Len(Chunks(n, CACHELINE_ALIGN)) |-> 0],
              taken |-> {},
              finished |-> <<>>,
              touched |-> <<>>]
    /\ result = "none"
    /\ report = <<>>
    /\ checksums = <<>>

\* the cache lines of the two slices, zipped
XorShards == Chunks(Len(given.patch_bytes), CACHELINE_ALIGN)

\* the lanes of shard k, counted from the start of the shard
XorLanes(k) == Chunks(XorShards[k].last - XorShards[k].first + 1, SIMD_SIZE)

\* for_each hands a cache line nobody has yet to a worker that has none
XorTake ==
  /\ kind = "xor" /\ pc = "fork"
  /\ \E w \in 1..given.workers, k \in 1..Len(XorShards) :
       /\ loc.worker[w] = 0
       /\ k \notin loc.taken
       /\ loc' = [loc EXCEPT !.worker[w] = k, !.taken = @ \cup {k}]
  /\ UNCHANGED <<kind, strict, rom, patch, output, pc, result, report, checksums, given>>

\* xor_cache_line of a worker goes on by one lane: xor_simd of the next
\* chunks of its patch cache line and its output cache line, copied into
\* the output chunk; after the last lane the worker is free again
XorLane ==
  /\ kind = "xor" /\ pc = "fork"
  /\ \E w \in 1..given.workers :
       /\ loc.worker[w] # 0
       /\ LET Of(k) ==
                LET Lane(patch_cache_line, output_cache_line, lane, base) ==
                      LET Put(res) ==
                            loc' = [loc EXCEPT
                              !.rom_bytes =
                                [i \in 1..Len(loc.rom_bytes) |->
                                   IF i >= base + lane.first /\ i <= base + lane.last
                                     THEN res[i - base - lane.first + 1]
                                     ELSE loc.rom_bytes[i]],
                              !.lanes[k] = @ + 1,
                              !.worker[w] =
                                IF loc.lanes[k] + 1 = Len(XorLanes(k)) THEN 0 ELSE k,
                              !.finished =
                                IF loc.lanes[k] + 1 = Len(XorLanes(k))
                                  THEN Append(@, k) ELSE @,
                              !.touched = <<base + lane.first, base + lane.last>>]
                      IN  Put(XorSimd(SubSeq(patch_cache_line, lane.first, lane.last),
                                      SubSeq(output_cache_line, lane.first, lane.last)))
                IN  Lane(SubSeq(given.patch_bytes, XorShards[k].first, XorShards[k].last),
                         SubSeq(loc.rom_bytes, XorShards[k].first, XorShards[k].last),
                         XorLanes(k)[loc.lanes[k] + 1],
                         XorShards[k].first - 1)
          IN  Of(loc.worker[w])
  /\ UNCHANGED <<kind, strict, rom, patch, output, pc, result, report, checksums, given>>

\* for_each returns when every cache line was handed out and done
XorJoin ==
  /\ kind = "xor" /\ pc = "fork"
  /\ loc.taken = 1..Len(XorShards)
  /\ \A w \in 1..given.workers : loc.worker[w] = 0
  /\ pc' = "joined"
  /\ UNCHANGED <<kind, strict, rom, patch, output, loc, result, report, checksums, given>>

\* apply_patch_block: output.write_all(patch_xor_rom_bytes)
XorWrite ==
  /\ kind = "xor" /\ pc = "joined"
  /\ output' = output \o loc.rom_bytes
  /\ pc' = "written"
  /\ UNCHANGED <<kind, strict, rom, patch, loc, result, report, checksums, given>>

NextXor ==
  \/ XorTake
  \/ XorLane
  \/ XorJoin
  \/ XorWrite

SpecXor == InitXor /\ [][NextXor]_vars

\* the shard whose range holds byte i
XorShardOf(i) == ((i - 1) \div CACHELINE_ALIGN) + 1

\* the XOR of the patch bytes and the source bytes, byte by byte
XorExpected ==
  [i \in 1..Len(given.patch_bytes) |-> BitXor(given.patch_bytes[i], given.rom_bytes[i])]

\* C34: the parallel XOR of a chunk of a UPS hunk leaves out[i] = patch[i]
\* XOR source[i] for every i of the chunk, a shorter last lane included,
\* whatever the number of workers and the order of the shards; a step of a
\* shard reads and writes bytes of its own cache line only and changes
\* none outside the lane it is at; and the result is written to the output
\* only after every shard is finished.
C34_ParallelXor ==
  /\ []((kind = "xor" /\ pc \in {"joined", "written"}) =>
          /\ loc.rom_bytes = XorExpected
          /\ \A k \in 1..Len(XorShards) : loc.lanes[k] = Len(XorLanes(k)))
  /\ []((kind = "xor" /\ pc = "written") => output = XorExpected)
  /\ []((kind = "xor" /\ pc = "fork") => output = <<>>)
  /\ [][(kind = "xor" /\ loc'.lanes # loc.lanes) =>
          \E w \in 1..given.workers :
            /\ loc.worker[w] # 0
            /\ loc'.lanes = [loc.lanes EXCEPT ![loc.worker[w]] = @ + 1]
            /\ XorShardOf(loc'.touched[1]) = loc.worker[w]
            /\ XorShardOf(loc'.touched[2]) = loc.worker[w]
            /\ \A i \in 1..Len(loc.rom_bytes) :
                 (i < loc'.touched[1] \/ i > loc'.touched[2]) =>
                   loc'.rom_bytes[i] = loc.rom_bytes[i]]_vars

\* three shards of 128, 128 and 1 bytes were finished by two workers in the
\* order 3, 1, 2 and the 257 bytes written
C34_Witness ==
  /\ kind = "xor" /\ pc = "written"
  /\ given.workers = 2
  /\ Len(given.patch_bytes) = 2 * CACHELINE_ALIGN + 1
  /\ loc.finished = <<3, 1, 2>>
  /\ Len(output) = 2 * CACHELINE_ALIGN + 1
  /\ output[1] = BitXor(10, 14)
  /\ output[2 * CACHELINE_ALIGN + 1] = BitXor(10, 14)

\* the two bytes of test_xor_simd
C34_WitnessTest ==
  /\ kind = "xor" /\ pc = "written"
  /\ given.patch_bytes = <<235, 23>>
  /\ output = <<211, 188>>

----------------------------------------------------------------------------
(* Properties of the target window the Vcdiff decoder emits *)

\* the cursors after the instruction loop of a window without a source
\* segment has run over its three sections
VcdWindowRun(w) ==
  ExecuteAll(Cursors([superstring |-> Zeros(w.tlen),
                      add_and_run_data |-> w.data,
                      instructions_and_sizes |-> w.inst,
                      copy_addresses |-> w.addr], 0))

\* a file of one well-delimited window without a source segment
VcdPlainWindowFile ==
  /\ kind = "VCD"
  /\ given.header = <<0, 0, 0, 0, 0>> /\ given.cut = 0
  /\ Len(given.windows) = 1
  /\ given.windows[1].ind = 0
  /\ given.windows[1].delta = 0 /\ given.windows[1].slack = 0

\* the instruction section of the window ended with fewer bytes written
\* than the target window has
VcdUnderfilled(w) ==
  /\ VcdWindowRun(w).status = "done"
  /\ VcdWindowRun(w).pos < w.tlen

\* C35: a target window the Vcdiff decoder appends to the output was
\* written in full by its instructions: they wrote exactly
\* target_window_length bytes, and a window whose instruction section ends
\* with fewer bytes written is rejected with BadPatch, not emitted with the
\* unwritten bytes as zeros.
C35_WindowFullyWritten ==
  (VcdPlainWindowFile /\ pc = "done") =>
    /\ output.data # <<>> =>
         VcdWindowRun(given.windows[1]).pos = given.windows[1].tlen
    /\ VcdUnderfilled(given.windows[1]) =>
         (result = "BadPatch" /\ output.data = <<>>)

----------------------------------------------------------------------------
(* Termination of RepeatSlice::read *)

\* C36: RepeatSlice::read returns after finitely many steps for every
\* buffer and every slice, a buffer longer than the slice and a read that
\* wraps around the end of the slice included, and the count it returns is
\* the number of bytes it placed: the length of the buffer.
C36_ReadTerminates ==
  (kind = "repeat" /\ pc = "read") ~>
    (pc = "idle" /\ loc.reads > 0 /\ loc.count = Len(loc.buf))

----------------------------------------------------------------------------
(* Properties of BPS and UPS outside strict mode *)

\* the source is not the file the patch was made for, or the target made
\* is not the one the patch was made to give, by the footer of the patch
ByuuMismatch ==
  \/ Crc32(rom.data) # StoredCrc(patch.data, 0)
  \/ Len(rom.data) # loc.expected_source_size
  \/ Crc32(output.data) # StoredCrc(patch.data, 1)

\* C37: outside strict mode a BPS or UPS decoder never fails with
\* AlreadyPatched or WrongInputFile: once the commands were applied, the
\* patch checksum is right and the target has its size, the decoder
\* succeeds whether or not the source checksum, the source size and the
\* target checksum match; a wrong patch checksum or a target of another
\* size than the expected one is BadPatch, as in strict mode.
C37_NonStrictChecks ==
  (Byuu /\ ~strict /\ pc = "done") =>
    /\ result \notin {"AlreadyPatched", "WrongInputFile"}
    /\ (/\ loc.patch_result = "Ok"
        /\ ~BadPatchCrc(patch.data)
        /\ Len(output.data) = loc.expected_target_size) => result = "Ok"
    /\ BadPatchCrc(patch.data) => result = "BadPatch"
    /\ (loc.patch_result = "Ok" /\ Len(patch.data) >= FOOTER_LEN
        /\ Len(output.data) # loc.expected_target_size) => result = "BadPatch"

\* outside strict mode a UPS patch succeeded on a source that is not the
\* one its footer names
C37_Witness ==
  /\ kind = "UPS" /\ ~strict /\ pc = "done" /\ result = "Ok"
  /\ Crc32(rom.data) # StoredCrc(patch.data, 0)
  /\ ByuuMismatch

----------------------------------------------------------------------------
(* checked_signed_difference (checked-signed-diff/src/prelude.rs) on its   *)
(* own, and PositionTracker::seek(Start) as far as it rests on it.  given  *)
(* is the width w of the unsigned type and the operands a and b, for seek  *)
(* the position asked for and the tracked position; loc.some and           *)
(* loc.value are the Option returned; loc.via says whether seek went       *)
(* through seek_relative or through the seek of the inner stream and       *)
(* loc.position is the tracked position after it.                          *)

DiffWidths == {8, 16}

\* a.wrapping_sub(b) on unsigned integers of w bits
WrappingSub(a, b, w) == (a - b + 2^w) % 2^w

\* the unsigned value as it is, not read as a signed integer
AsUnsigned(x, w) == x

\* `as $int`: the w bits of x read as a signed integer
AsSigned(x, w) == IF x >= 2^(w - 1) THEN x - 2^w ELSE x

\* the macro checked_signed_diff!
CheckedSignedDiff(a, b, w) ==
  LET Of(res) ==
        LET Checked(overflow) ==
              IF ~overflow THEN [some |-> TRUE, value |-> res]
              ELSE [some |-> FALSE, value |-> 0]
        IN  Checked((a >= b) = (res < 0))
  IN  Of(AsSigned(WrappingSub(a, b, w), w))

\* the operands: every value of 8 bits against the values at the edges,
\* and the values at the edges of 16 bits
DiffEdges(w) == {0, 1, 2^(w - 1) - 1, 2^(w - 1), 2^(w - 1) + 1, 2^w - 1}

InitDiff ==
  \E w \in DiffWidths :
    \E a \in (IF w = 8 THEN 0..255 ELSE DiffEdges(w)), b \in DiffEdges(w) :
      /\ kind = "diff"
      /\ strict = FALSE
      /\ rom = <<>>
      /\ patch = <<>>
      /\ output = <<>>
      /\ pc = "call"
      /\ loc = [some |-> FALSE, value |-> 0, via |-> "none", position |-> b]
      /\ result = "none"
      /\ report = <<>>
      /\ checksums = <<>>
      /\ given = [w |-> w, a |-> a, b |-> b]

\* position.checked_signed_difference(self.position)
DiffCall ==
  /\ kind = "diff" /\ pc = "call"
  /\ loc' = [loc EXCEPT !.some = CheckedSignedDiff(given.a, given.b, given.w).some,
                        !.value = CheckedSignedDiff(given.a, given.b, given.w).value]
  /\ pc' = "returned"
  /\ UNCHANGED <<kind, strict, rom, patch, output, result, report, checksums, given>>

\* PositionTracker::seek(Start(position)) after the difference: with
\* Some(offset) seek_relative(offset) adds the offset to the tracked
\* position by wrapping_add_signed, with None the inner stream seeks and
\* answers its position
DiffSeek ==
  /\ kind = "diff" /\ pc = "returned"
  /\ loc' = [loc EXCEPT !.via = IF loc.some THEN "seek_relative" ELSE "seek",
                        !.position =
                          IF loc.some
                            THEN (loc.position + loc.value + 2^given.w) % 2^given.w
                            ELSE given.a]
  /\ pc' = "done"
  /\ UNCHANGED <<kind, strict, rom, patch, output, result, report, checksums, given>>

NextDiff ==
  \/ DiffCall
  \/ DiffSeek

SpecDiff == InitDiff /\ [][NextDiff]_vars

\* C38: for unsigned a and b of w bits checked_signed_difference(a, b) is
\* Some(a - b) exactly when a - b lies between -2^(w-1) and 2^(w-1) - 1,
\* both included, and None otherwise; a seek to a position from the start
\* goes through seek_relative exactly in the first case and ends at the
\* position asked for.
C38_CheckedSignedDifference ==
  (kind = "diff" /\ pc \in {"returned", "done"}) =>
    /\ loc.some <=> (/\ given.a - given.b >= -(2^(given.w - 1))
                     /\ given.a - given.b <= 2^(given.w - 1) - 1)
    /\ loc.some => loc.value = given.a - given.b
    /\ pc = "done" =>
         /\ loc.via = (IF loc.some THEN "seek_relative" ELSE "seek")
         /\ loc.position = given.a

\* 0 - 2^(w-1) is the least value of the signed type: Some(-128) for 8 bits
C38_Witness ==
  /\ kind = "diff" /\ pc = "done"
  /\ given = [w |-> 8, a |-> 0, b |-> 128]
  /\ loc.some /\ loc.value = -128
  /\ loc.via = "seek_relative"

\* 2^(w-1) - 0 does not fit, 0 - (2^(w-1) + 1) does not fit, and
\* (2^(w-1) - 1) - 0 is the greatest value of the signed type
C38_WitnessEdges ==
  /\ kind = "diff" /\ pc = "returned" /\ given.w = 16
  /\ \/ given.a = 32768 /\ given.b = 0 /\ ~loc.some
     \/ given.a = 0 /\ given.b = 32769 /\ ~loc.some
     \/ given.a = 32767 /\ given.b = 0 /\ loc.some /\ loc.value = 32767

=============================================================================
